---- MODULE Spec2Model ----
(***************************************************************************)
(* Model of the collage publishing handlers (netlify functions):           *)
(* list-posts, update-visible, create-post, delete-post, get-post,        *)
(* export-archive, admin-login and the HS256 token verification.           *)
(*                                                                         *)
(* Eight specifications are stated over one set of variables:              *)
(*   SelSpec   - the per-slug selection folds of list-posts and            *)
(*               update-visible applied to bounded listings;               *)
(*   JwtSpec   - verifyJWT / requireAdmin applied to bounded tokens;       *)
(*   Spec      - the mutating handlers and list-posts against the object   *)
(*               storage, with every kind of request;                      *)
(*   LoginSpec - admin-login and the acceptance of the token it issues;    *)
(*   FlowSpec  - all handlers on one slug, two concurrent toggles and the  *)
(*               CDN edge in front of the unversioned delivery paths;      *)
(*   PageSpec  - the cursor loop of list-posts over a paged listing        *)
(*               (PageLive adds the fairness of the running handler);      *)
(*   ArchiveSpec - the item loop of export-archive;                        *)
(*   KeySpec   - the storage keys the handlers build from slug strings.    *)
(***************************************************************************)
EXTENDS Integers, Sequences, FiniteSets, TLC

VARIABLES
    \* ---- SelSpec: the selection folds ----
    rawResources,   \* list-posts: the enumerated raw resources (STEP 1 result)
    foldIdx,        \* number of entries of rawResources already folded
    bySlug,         \* list-posts: Map slug -> descriptor (NoDesc = no entry)
    uvSlug,         \* update-visible: the slug of the request
    chosen,         \* update-visible: the chosen descriptor (NoDesc = null)
    \* ---- JwtSpec: token verification ----
    token,          \* the bearer credential, a sequence of characters
    envSecret,      \* process.env.ADMIN_JWT_SECRET ("" = unset)
    nowMs,          \* Date.now()
    jwtPc,          \* "input" before, "done" after the verifications ran
    jwtOut,         \* results of the verifications
    \* ---- Spec: the handlers and the object storage ----
    storage,        \* key -> stored object (presence, version, content)
    wroteBack,      \* slugs for which update-visible has completed a write-back
    resp,           \* the response sent last
    uv,             \* update-visible invocations
    lp,             \* the list-posts invocation
    cp,             \* the create-post invocation
    dp,             \* the delete-post invocation
    nreq,           \* number of requests started so far
    \* ---- FlowSpec: the readers behind the edge cache, and the history ----
    gp,             \* the get-post invocation
    ex,             \* the export-archive invocation
    cdn,            \* slug -> body the edge cache holds for the unversioned URL
    lastOp,         \* slug -> the mutation of the slug that completed last
    clean,          \* invocations started after the last completed mutation
    \* ---- LoginSpec: admin-login and the authorization checks ----
    lg,             \* the admin-login invocation
    envPassword,    \* process.env.ADMIN_PASSWORD ("" = unset)
    authOut,        \* protected handler -> result of its requireAdmin
    \* ---- PageSpec, ArchiveSpec, KeySpec: single handlers in detail ----
    pg,             \* list-posts STEP 1: the pagination loop and the pages it is given
    zip,            \* export-archive: the item loop and the archive it builds
    ks              \* the storage keys of slugs given as character strings

selVars == <<rawResources, foldIdx, bySlug, uvSlug, chosen>>
jwtVars == <<token, envSecret, nowMs, jwtPc, jwtOut>>
sysVars == <<storage, wroteBack, resp, uv, lp, cp, dp, nreq>>
readVars == <<gp, ex, cdn>>
histVars == <<lastOp, clean>>
loginVars == <<lg, envPassword, authOut>>
auxVars == <<pg, zip, ks>>
vars == <<selVars, jwtVars, sysVars, readVars, histVars, loginVars, auxVars>>

(***************************************************************************)
(* Bounds of the model.                                                    *)
(***************************************************************************)
MaxVer == 2      \* storage versions range over 1..MaxVer
MaxCand == 3     \* longest listing folded in SelSpec
MaxTick == 5     \* Date.now() ranges over 500, 1000, ..., 500 * MaxTick
MaxReq == 2      \* requests started in one behaviour of Spec
MaxPages == 3    \* pages of the longest listing in PageSpec
MaxPageLen == 1  \* resources on the fullest page in PageSpec
MaxItems == 4    \* items of the longest record exported in ArchiveSpec
MaxSlugLen == 3  \* characters of the longest slug string in KeySpec
MaxCreates == 2  \* posts created in one behaviour of KeySpec
MaxOps == 2      \* toggles, deletions and listings in one behaviour of KeySpec

Slugs == {"s1", "s2"}
Versions == 1..MaxVer

(***************************************************************************)
(* Stored object descriptors.  A public_id "collages/<slug>/<name>" is     *)
(* kept as its two variable parts; name "data" is the extensionless key,   *)
(* "data.json" the suffixed one, "other" any raw file that is neither.     *)
(***************************************************************************)
Names == {"data", "data.json", "other"}
PublicIds == [slug : Slugs, name : Names]
Descriptors == [public_id : PublicIds, version : Versions]
NoDesc == [public_id |-> [slug |-> "", name |-> ""], version |-> 0]

\* /^collages\/([^/]+)\/data(?:\.json)?$/i.exec(pid)
MatchesDataKey(pid) == pid.name \in {"data", "data.json"}

\* /\.json$/i.test(pid)
HasJson(pid) == pid.name = "data.json"

(***************************************************************************)
(* list-posts STEP 2: one iteration of `for (const r of rawResources)`.    *)
(***************************************************************************)
\* The replacement rule with the version comparison turned around.
LPReplaceOlder(current, r) ==
    LET currentHasJson == HasJson(current.public_id)
        incomingHasJson == HasJson(r.public_id)
    IN  IF currentHasJson /\ ~incomingHasJson THEN TRUE
        ELSE IF r.version < current.version THEN TRUE
        ELSE FALSE

LPReplace(current, r) ==
    LET currentHasJson == HasJson(current.public_id)
        incomingHasJson == HasJson(r.public_id)
    IN  IF currentHasJson /\ ~incomingHasJson THEN TRUE
        ELSE IF r.version > current.version THEN TRUE
        ELSE FALSE

LPFoldOne(map, r) ==
    IF ~MatchesDataKey(r.public_id) THEN map
    ELSE LET slug == r.public_id.slug
             current == map[slug]
         IN  IF current = NoDesc THEN [map EXCEPT ![slug] = r]
             ELSE IF LPReplace(current, r) THEN [map EXCEPT ![slug] = r]
             ELSE map

(***************************************************************************)
(* update-visible step 1: one iteration of `for (const r of res.resources)`*)
(***************************************************************************)
UVReplace(cur, r) ==
    LET curHasJson == HasJson(cur.public_id)
        newHasJson == HasJson(r.public_id)
    IN  IF curHasJson /\ ~newHasJson THEN TRUE
        ELSE IF r.version > cur.version THEN TRUE
        ELSE FALSE

UVFoldOne(cur, r) ==
    IF ~MatchesDataKey(r.public_id) THEN cur
    ELSE IF cur = NoDesc THEN r
    ELSE IF UVReplace(cur, r) THEN r
    ELSE cur

\* cloudinary.api.resources({prefix: `collages/${slug}/`}): the entries of a
\* listing that lie under the slug's prefix, in listing order.
UnderPrefix(slug, r) == r.public_id.slug = slug

\* The folds as pure functions of a whole listing (the loops run to
\* their end).
RECURSIVE LPFoldAll(_, _)
LPFoldAll(map, seq) ==
    IF seq = <<>> THEN map ELSE LPFoldAll(LPFoldOne(map, Head(seq)), Tail(seq))

RECURSIVE UVFoldAll(_, _, _)
UVFoldAll(slug, cur, seq) ==
    IF seq = <<>> THEN cur
    ELSE UVFoldAll(slug,
                   IF UnderPrefix(slug, Head(seq)) THEN UVFoldOne(cur, Head(seq)) ELSE cur,
                   Tail(seq))

(***************************************************************************)
(* Tokens.  A token is a sequence of characters; "." separates segments.   *)
(* base64url(JSON) segments are kept by a codebook: the header segment "H" *)
(* is {"alg":"HS256"}, "N" is {"alg":"none"}; a payload segment is a role  *)
(* character ("a" = admin, "u" = another role) followed by at most one     *)
(* exp character ("m" = -1, "0", "1", "2").  Every other segment is one    *)
(* that JSON.parse rejects.                                                *)
(***************************************************************************)
SecretChars == {"k1", "k2"}
HeaderChars == {"H", "N"}
RoleChars == {"a", "u"}
ExpChars == {"m", "0", "1", "2"}
Alphabet == {".", "/", "d", "x"} \cup SecretChars \cup HeaderChars
                \cup RoleChars \cup ExpChars

ExpOf(c) == CASE c = "m" -> -1 [] c = "0" -> 0 [] c = "1" -> 1 [] c = "2" -> 2

Threw == [ok |-> FALSE, alg |-> "", role |-> "", hasExp |-> FALSE, exp |-> 0]

\* decodeB64Json(str): the decoded JSON value, or Threw when Buffer/JSON.parse
\* (or the later property access) throws.
decodeB64Json(str) ==
    IF Len(str) = 1 /\ str[1] \in HeaderChars
    THEN [ok |-> TRUE, alg |-> IF str[1] = "H" THEN "HS256" ELSE "none",
          role |-> "", hasExp |-> FALSE, exp |-> 0]
    ELSE IF Len(str) = 1 /\ str[1] \in RoleChars
    THEN [ok |-> TRUE, alg |-> "",
          role |-> IF str[1] = "a" THEN "admin" ELSE "user",
          hasExp |-> FALSE, exp |-> 0]
    ELSE IF Len(str) = 2 /\ str[1] \in RoleChars /\ str[2] \in ExpChars
    THEN [ok |-> TRUE, alg |-> "",
          role |-> IF str[1] = "a" THEN "admin" ELSE "user",
          hasExp |-> TRUE, exp |-> ExpOf(str[2])]
    ELSE Threw

\* token.split('.')
RECURSIVE Split(_)
Split(str) ==
    IF \A i \in 1..Len(str) : str[i] # "." THEN <<str>>
    ELSE LET i == CHOOSE k \in 1..Len(str) :
                      str[k] = "." /\ \A j \in 1..(k - 1) : str[j] # "."
         IN  <<SubSeq(str, 1, i - 1)>> \o Split(SubSeq(str, i + 1, Len(str)))

\* const [h,p,s] = parts: element k, or undefined (kept as the empty string,
\* which `!x` treats alike) when the array is shorter.
Part(parts, k) == IF k <= Len(parts) THEN parts[k] ELSE <<>>

\* crypto.createHmac('sha256', secret).update(`${h}.${p}`).digest('base64')
\* made url-safe: an ideal MAC, injective in (secret, h, p), whose output
\* holds no ".".
RECURSIVE Esc(_)
Esc(str) ==
    IF str = <<>> THEN <<>>
    ELSE (CASE Head(str) = "." -> <<"/", "d">>
            [] Head(str) = "/" -> <<"/", "/">>
            [] OTHER -> <<Head(str)>>) \o Esc(Tail(str))

Hmac(secret, h, p) == <<secret>> \o Esc(h \o <<".">> \o p)

NullResult == [kind |-> "null", role |-> "", hasExp |-> FALSE, exp |-> 0]
ThrowResult == [kind |-> "throw", role |-> "", hasExp |-> FALSE, exp |-> 0]
PayloadResult(pl) ==
    [kind |-> "payload", role |-> pl.role, hasExp |-> pl.hasExp, exp |-> pl.exp]

\* `payload.exp &&`: 0 and a missing exp are both falsy.
Truthy(pl) == pl.hasExp /\ pl.exp # 0

\* The body of verifyJWT's try block.
VerifyTry(tok, secret, now) ==
    LET parts == Split(tok)
        h == Part(parts, 1)
        p == Part(parts, 2)
        s == Part(parts, 3)
    IN  IF h = <<>> \/ p = <<>> \/ s = <<>> THEN NullResult
        ELSE LET header == decodeB64Json(h)
             IN  IF ~header.ok THEN ThrowResult
                 ELSE IF header.alg # "HS256" THEN NullResult
                 ELSE IF Hmac(secret, h, p) # s THEN NullResult
                 ELSE LET payload == decodeB64Json(p)
                      IN  IF ~payload.ok THEN ThrowResult
                          ELSE IF Truthy(payload) /\ now >= payload.exp * 1000
                               THEN NullResult
                          ELSE PayloadResult(payload)

\* The same with the signature comparison left out.
VerifyTryNoSig(tok, secret, now) ==
    LET parts == Split(tok)
        h == Part(parts, 1)
        p == Part(parts, 2)
        s == Part(parts, 3)
    IN  IF h = <<>> \/ p = <<>> \/ s = <<>> THEN NullResult
        ELSE LET header == decodeB64Json(h)
             IN  IF ~header.ok THEN ThrowResult
                 ELSE IF header.alg # "HS256" THEN NullResult
                 ELSE LET payload == decodeB64Json(p)
                      IN  IF ~payload.ok THEN ThrowResult
                          ELSE IF Truthy(payload) /\ now >= payload.exp * 1000
                               THEN NullResult
                          ELSE PayloadResult(payload)

verifyJWTNoSig(tok, secret, now) ==
    LET r == VerifyTryNoSig(tok, secret, now)
    IN  IF r.kind = "throw" THEN NullResult ELSE r

\* verifyJWT of update-visible: try { ... } catch { return null }
verifyJWT(tok, secret, now) ==
    LET r == VerifyTry(tok, secret, now)
    IN  IF r.kind = "throw" THEN NullResult ELSE r

\* verifyJWT of list-posts and of create-post: the same statements.
verifyJWT_list(tok, secret, now) ==
    LET r == VerifyTry(tok, secret, now)
    IN  IF r.kind = "throw" THEN NullResult ELSE r

verifyJWT_create(tok, secret, now) ==
    LET r == VerifyTry(tok, secret, now)
    IN  IF r.kind = "throw" THEN NullResult ELSE r

(***************************************************************************)
(* JwtSpec: the three verifyJWT copies applied to bounded tokens.          *)
(***************************************************************************)
Handlers == {"create", "list", "update"}
ServerSecret == "k1"

PayloadSegs == {<<r>> : r \in RoleChars} \cup {<<r, e>> : r \in RoleChars, e \in ExpChars}

\* header.payload.signature, signed with secret k
Sign(h, p, k) == h \o <<".">> \o p \o <<".">> \o Hmac(k, h, p)

\* Tokens whose signature is the server's MAC of their first two segments.
SignedTokens == {Sign(<<hc>>, p, ServerSecret) : hc \in HeaderChars, p \in PayloadSegs}
\* Tokens signed with another secret.
ForeignTokens == {Sign(<<hc>>, p, "k2") : hc \in HeaderChars, p \in PayloadSegs}

\* Every token that differs from tok in exactly one position.
OneCharChanges(tok) ==
    {[tok EXCEPT ![i] = c] : i \in 1..Len(tok), c \in Alphabet} \ {tok}

\* tok with one more segment, with its last segment cut, with a segment
\* emptied, and the degenerate strings.
Restructured(tok) ==
    LET parts == Split(tok)
    IN  { tok \o <<".", "x">>, tok \o <<".">>,
          parts[1] \o <<".">> \o parts[2],
          parts[1] \o <<".", ".">> \o parts[3],
          <<".">> \o parts[2] \o <<".">> \o parts[3],
          parts[1], <<".", ".">>, <<"x">> }

TokenInputs ==
    SignedTokens \cup ForeignTokens
        \cup UNION {OneCharChanges(tk) : tk \in SignedTokens}
        \cup UNION {Restructured(tk) : tk \in SignedTokens}

(***************************************************************************)
(* Requests.  The authorization header is absent or a scheme followed by a *)
(* credential; the handlers of Spec are driven with one header of each     *)
(* kind.                                                                   *)
(***************************************************************************)
SpecNow == 1500

AdminToken == Sign(<<"H">>, <<"a", "2">>, ServerSecret)   \* role admin, exp 2 s
UserToken == Sign(<<"H">>, <<"u">>, ServerSecret)         \* another role
ForgedToken == Sign(<<"H">>, <<"a">>, "k2")               \* signed with another secret
ExpiredToken == Sign(<<"H">>, <<"a", "1">>, ServerSecret) \* role admin, exp 1 s

AuthAbsent == [present |-> FALSE, scheme |-> "", cred |-> <<>>]
AuthAdmin == [present |-> TRUE, scheme |-> "Bearer", cred |-> AdminToken]
AuthHeaders ==
    { AuthAbsent, AuthAdmin,
      [present |-> TRUE, scheme |-> "Basic", cred |-> AdminToken],
      [present |-> TRUE, scheme |-> "bearer", cred |-> UserToken],
      [present |-> TRUE, scheme |-> "Bearer", cred |-> ForgedToken],
      [present |-> TRUE, scheme |-> "Bearer", cred |-> ExpiredToken] }

\* authHeader.match(/^Bearer\s+(.+)$/i)
BearerMatch(auth) ==
    auth.present /\ auth.scheme \in {"Bearer", "bearer"} /\ auth.cred # <<>>

\* requireAdmin of update-visible
requireAdmin(auth, secret, now) ==
    IF ~BearerMatch(auth) THEN NullResult
    ELSE IF secret = "" THEN NullResult
    ELSE LET payload == verifyJWT(auth.cred, secret, now)
         IN  IF payload.kind = "null" THEN NullResult
             ELSE IF payload.role # "admin" THEN NullResult
             ELSE payload

\* requireAdmin of list-posts
requireAdmin_list(auth, secret, now) ==
    IF ~BearerMatch(auth) THEN NullResult
    ELSE IF secret = "" THEN NullResult
    ELSE LET payload == verifyJWT_list(auth.cred, secret, now)
         IN  IF payload.kind = "null" THEN NullResult
             ELSE IF payload.role # "admin" THEN NullResult
             ELSE payload

\* requireAdmin of create-post
requireAdmin_create(auth, secret, now) ==
    IF ~BearerMatch(auth) THEN NullResult
    ELSE IF secret = "" THEN NullResult
    ELSE LET payload == verifyJWT_create(auth.cred, secret, now)
         IN  IF payload.kind = "null" THEN NullResult
             ELSE IF payload.role # "admin" THEN NullResult
             ELSE payload

\* jwt.verify(token, secret) of the jsonwebtoken package as delete-post uses
\* it: exactly three parts, an HMAC header algorithm, a matching signature,
\* and exp (when present) after the current second; everything else throws.
JwtLibVerify(tok, secret, now) ==
    LET parts == Split(tok)
    IN  IF secret = "" THEN ThrowResult
        ELSE IF Len(parts) # 3 THEN ThrowResult
        ELSE LET header == decodeB64Json(parts[1])
                 payload == decodeB64Json(parts[2])
             IN  IF ~header.ok \/ ~payload.ok THEN ThrowResult
                 ELSE IF header.alg # "HS256" THEN ThrowResult
                 ELSE IF Hmac(secret, parts[1], parts[2]) # parts[3] THEN ThrowResult
                 ELSE IF payload.hasExp /\ (now \div 1000) >= payload.exp THEN ThrowResult
                 ELSE PayloadResult(payload)

\* requireAdmin of delete-post
requireAdmin_delete(auth, secret, now) ==
    IF ~BearerMatch(auth) THEN NullResult
    ELSE LET decoded == JwtLibVerify(auth.cred, secret, now)
         IN  IF decoded.kind = "payload" /\ decoded.role = "admin" THEN decoded
             ELSE NullResult

(***************************************************************************)
(* The object storage.  Each key <slug>/data and <slug>/data.json holds at *)
(* most one object with the version of its last write.  A stored body is a *)
(* JSON record, a JSON value that is falsy (null, 0), or bytes that do not *)
(* parse; a record's visible field is "true", "false" or "unset".          *)
(***************************************************************************)
DataNames == {"data", "data.json"}
StoreKeys == [slug : Slugs, name : DataNames]

NoContent == [kind |-> "none", visible |-> "", date |-> 0, items |-> "", preview |-> ""]
NoObject == [present |-> FALSE, version |-> 0, content |-> NoContent]

\* The date a record of the slug carries (fixed per slug, distinct).
DateOf(slug) == IF slug = "s1" THEN 2 ELSE 1

\* items[0]?.url || null, for the items lists of the model: "one" is a list
\* whose first item has url "url1", "old" one whose first item has "url0".
FirstUrl(items) ==
    IF items = "one" THEN "url1" ELSE IF items = "old" THEN "url0" ELSE "null"

\* The record create-post builds; items stands for the fields of the body
\* (title, date, desc, tags, items, created_at) as one value.
RecordOf(slug, visible, items) ==
    [kind |-> "record", visible |-> visible, date |-> DateOf(slug),
     items |-> items, preview |-> FirstUrl(items)]

Record(slug, visible) == RecordOf(slug, visible, "one")
Garbage == [NoContent EXCEPT !.kind = "garbage"]
\* A body that parses to a JSON array.
JsonArray == [NoContent EXCEPT !.kind = "array"]

\* cloudinary.api.resources(...).resources restricted to the data keys:
\* the descriptors of the stored objects under a set of slugs.
Listed(st, slugs) ==
    {[public_id |-> k, version |-> st[k].version] :
        k \in {x \in StoreKeys : x.slug \in slugs /\ st[x].present}}

\* Every order in which the storage may enumerate a set of descriptors.
Orderings(S) ==
    {f \in [1..Cardinality(S) -> S] : \A i, j \in 1..Cardinality(S) : f[i] = f[j] => i = j}

\* public_id + (hasExt ? '' : '.json')
WithJsonExt(pid) == IF HasJson(pid) THEN pid.name ELSE "data.json"

\* `https://res.cloudinary.com/${cloud}/raw/upload/v${version}/${...}`
VersionedUrl(desc) ==
    [slug |-> desc.public_id.slug, file |-> WithJsonExt(desc.public_id),
     version |-> desc.version]

NotOk == [ok |-> FALSE, body |-> NoContent]

\* await resp.json().catch(() => null) followed by if (!data): bytes that do
\* not parse give null; a record and an array are truthy.
ParsedTruthy(body) == body.kind \in {"record", "array"}

\* The write-back that leaves visible as it was read.
WithVisibleAsRead(body, newVisible) == body

\* data.visible = newVisible, as JSON.stringify(data) then writes it: the
\* property set on an array is not serialized.
WithVisible(body, newVisible) ==
    IF body.kind = "record"
    THEN [body EXCEPT !.visible = IF newVisible THEN "true" ELSE "false"]
    ELSE body

\* fetch(url): the body stored at the url's path with exactly the url's
\* version, or a response that is not ok (no such object, or the call fails).
FetchOutcomes(st, url) ==
    {[ok |-> TRUE, body |-> st[k].content] :
        k \in {x \in StoreKeys : /\ x.slug = url.slug
                                 /\ st[x].present
                                 /\ st[x].version = url.version}}
    \cup {NotOk}

\* The version the storage assigns to the next write of a key: versions are
\* assigned per key and increase with each write of that key.
NextVersions(st, key) == {st[key].version + 1}

\* cloudinary.uploader.upload(..., {public_id, overwrite: true})
Uploaded(st, key, content, v) ==
    [st EXCEPT ![key] = [present |-> TRUE, version |-> v, content |-> content]]

\* chosen.public_id.replace(/\.json$/i, '')
CanonicalPid(pid) == [slug |-> pid.slug, name |-> IF HasJson(pid) THEN "data" ELSE pid.name]

Pending == [kind |-> "pending", role |-> "", hasExp |-> FALSE, exp |-> 0]

AuxIdle ==
    /\ pg = <<>>
    /\ zip = <<>>
    /\ ks = <<>>

LoginIdle ==
    /\ lg = <<>>
    /\ envPassword = ""
    /\ authOut = <<>>

SysIdle ==
    /\ gp = <<>>
    /\ ex = <<>>
    /\ cdn = <<>>
    /\ lastOp = <<>>
    /\ clean = {}
    /\ LoginIdle
    /\ storage = <<>>
    /\ wroteBack = {}
    /\ resp = <<>>
    /\ uv = <<>>
    /\ lp = <<>>
    /\ cp = <<>>
    /\ dp = <<>>
    /\ nreq = 0

SelIdle ==
    /\ rawResources = <<>>
    /\ foldIdx = 0
    /\ bySlug = [s \in Slugs |-> NoDesc]
    /\ uvSlug = "s1"
    /\ chosen = NoDesc

JwtInit ==
    /\ token \in TokenInputs
    /\ envSecret = ServerSecret
    /\ nowMs \in {500 * k : k \in 1..MaxTick}
    /\ jwtPc = "input"
    /\ jwtOut = [hd \in Handlers |-> Pending]
    /\ SelIdle
    /\ AuxIdle
    /\ SysIdle

VerifyCreate ==
    /\ jwtPc = "input"
    /\ jwtOut["create"] = Pending
    /\ jwtOut' = [jwtOut EXCEPT !["create"] = verifyJWT_create(token, envSecret, nowMs)]
    /\ UNCHANGED <<token, envSecret, nowMs, jwtPc, selVars, sysVars, readVars, histVars, loginVars, auxVars>>

VerifyList ==
    /\ jwtPc = "input"
    /\ jwtOut["list"] = Pending
    /\ jwtOut' = [jwtOut EXCEPT !["list"] = verifyJWT_list(token, envSecret, nowMs)]
    /\ UNCHANGED <<token, envSecret, nowMs, jwtPc, selVars, sysVars, readVars, histVars, loginVars, auxVars>>

VerifyUpdate ==
    /\ jwtPc = "input"
    /\ jwtOut["update"] = Pending
    /\ jwtOut' = [jwtOut EXCEPT !["update"] = verifyJWT(token, envSecret, nowMs)]
    /\ UNCHANGED <<token, envSecret, nowMs, jwtPc, selVars, sysVars, readVars, histVars, loginVars, auxVars>>

JwtNext == VerifyCreate \/ VerifyList \/ VerifyUpdate

JwtSpec == JwtInit /\ [][JwtNext]_vars

(***************************************************************************)
(* SelSpec: both folds run over the same bounded listing.                  *)
(***************************************************************************)
Listings == UNION {[1..n -> Descriptors] : n \in 1..MaxCand}

JwtIdle ==
    /\ token = <<>>
    /\ envSecret = ""
    /\ nowMs = 0
    /\ jwtPc = "idle"
    /\ jwtOut = <<>>

SelInit ==
    /\ rawResources \in Listings
    /\ foldIdx = 0
    /\ bySlug = [s \in Slugs |-> NoDesc]
    /\ uvSlug \in Slugs
    /\ chosen = NoDesc
    /\ JwtIdle
    /\ SysIdle
    /\ AuxIdle

\* The incoming entry of the next fold iteration.
Incoming == rawResources[foldIdx + 1]

FoldStep ==
    /\ foldIdx < Len(rawResources)
    /\ foldIdx' = foldIdx + 1
    /\ bySlug' = LPFoldOne(bySlug, Incoming)
    /\ chosen' = IF UnderPrefix(uvSlug, Incoming)
                 THEN UVFoldOne(chosen, Incoming)
                 ELSE chosen
    /\ UNCHANGED <<rawResources, uvSlug, jwtVars, sysVars, readVars, histVars, loginVars, auxVars>>

SelNext == FoldStep

SelSpec == SelInit /\ [][SelNext]_vars

(***************************************************************************)
(* LoginSpec: admin-login issues a token, time passes, and the requireAdmin *)
(* of each protected handler checks the token presented as Bearer <token>. *)
(***************************************************************************)
Protected == {"create", "delete", "update", "list"}

\* expiresIn: '12h', in the unit of the exp values of the model (one step of
\* exp stands for the twelve hours).
LoginTtl == 1

\* The payload segment {role: 'admin', exp}; jwt.sign also sets iat, which no
\* handler reads.
AdminPayload(exp) ==
    <<"a", CHOOSE c \in ExpChars : ExpOf(c) = exp>>

\* The token of a login at `now` whose exp lies at the deadline itself.
IssuedNoTtl(secret, now) ==
    Sign(<<"H">>, AdminPayload(now \div 1000), secret)

\* jwt.sign({role:'admin'}, secret, {expiresIn:'12h'}): HS256 header,
\* exp = floor(now / 1000) + ttl.
Issued(secret, now) ==
    Sign(<<"H">>, AdminPayload((now \div 1000) + LoginTtl), secret)

Passwords == {"", "p1", "p2"}
\* body?.password || '' of the request bodies: no JSON body, no password
\* field, or a password string.
LoginBodies == {"nojson", "nofield"} \cup Passwords
SuppliedPassword(body) == IF body \in {"nojson", "nofield"} THEN "" ELSE body

LGIdle == [pc |-> "idle", method |-> "", supplied |-> "", status |-> 0, issuedAt |-> 0]

\* admin-login: method, body.password, comparison, jwt.sign.  jwt.sign
\* throws when the secret is unset, and nothing catches it.
Login ==
    /\ lg.pc = "idle"
    /\ \E method \in {"OPTIONS", "GET", "POST"}, body \in LoginBodies :
          LET password == SuppliedPassword(body)
              rec == [LGIdle EXCEPT !.pc = "done", !.method = method,
                                    !.supplied = password]
          IN  IF method = "OPTIONS" THEN lg' = [rec EXCEPT !.status = 204] /\ token' = token
              ELSE IF method # "POST" THEN lg' = [rec EXCEPT !.status = 405] /\ token' = token
              ELSE IF password = "" \/ password # envPassword
              THEN lg' = [rec EXCEPT !.status = 401] /\ token' = token
              ELSE IF envSecret = ""
              THEN lg' = [rec EXCEPT !.status = 500] /\ token' = token
              ELSE /\ lg' = [rec EXCEPT !.status = 200, !.issuedAt = nowMs]
                   /\ token' = Issued(envSecret, nowMs)
    /\ UNCHANGED <<envSecret, nowMs, jwtPc, jwtOut, envPassword, authOut,
                   selVars, sysVars, readVars, histVars, auxVars>>

\* Date.now() advances after the login (the time of the login itself is
\* chosen by LoginInit).
Tick ==
    /\ lg.pc = "done"
    /\ nowMs < 500 * MaxTick
    /\ nowMs' = nowMs + 500
    /\ UNCHANGED <<token, envSecret, jwtPc, jwtOut, loginVars,
                   selVars, sysVars, readVars, histVars, auxVars>>

\* requireAdmin of the protected handler hd.
RequireAdminOf(hd, auth, secret, now) ==
    IF hd = "create" THEN requireAdmin_create(auth, secret, now)
    ELSE IF hd = "delete" THEN requireAdmin_delete(auth, secret, now)
    ELSE IF hd = "list" THEN requireAdmin_list(auth, secret, now)
    ELSE requireAdmin(auth, secret, now)

NotChecked == [kind |-> "none", role |-> "", at |-> 0]

\* The client presents the token it was issued to a protected handler.
AuthCheck(hd) ==
    /\ lg.pc = "done"
    /\ lg.status = 200
    /\ LET r == RequireAdminOf(hd, [present |-> TRUE, scheme |-> "Bearer", cred |-> token],
                               envSecret, nowMs)
       IN  authOut' = [authOut EXCEPT ![hd] = [kind |-> r.kind, role |-> r.role, at |-> nowMs]]
    /\ UNCHANGED <<token, envSecret, nowMs, jwtPc, jwtOut, lg, envPassword,
                   selVars, sysVars, readVars, histVars, auxVars>>

LoginInit ==
    /\ lg = LGIdle
    /\ envPassword \in {"", "p1"}
    /\ authOut = [hd \in Protected |-> NotChecked]
    /\ token = <<>>
    /\ envSecret \in {""} \cup SecretChars
    /\ nowMs \in {0, 500, 1000, 1500}
    /\ jwtPc = "idle"
    /\ jwtOut = <<>>
    /\ SelIdle
    /\ AuxIdle
    /\ gp = <<>>
    /\ ex = <<>>
    /\ cdn = <<>>
    /\ lastOp = <<>>
    /\ clean = {}
    /\ storage = <<>>
    /\ wroteBack = {}
    /\ resp = <<>>
    /\ uv = <<>>
    /\ lp = <<>>
    /\ cp = <<>>
    /\ dp = <<>>
    /\ nreq = 0

LoginNext ==
    \/ Login
    \/ Tick
    \/ \E hd \in Protected : AuthCheck(hd)

LoginSpec == LoginInit /\ [][LoginNext]_vars

(***************************************************************************)
(* Responses.  resp is the response sent last, by whichever handler, with  *)
(* what the invocation did: whether it parsed the body, how many storage   *)
(* calls it made and, for a listing, what its fetches returned.            *)
(***************************************************************************)
NoResult == [state |-> "none", data |-> NoContent]
PendingResult == [state |-> "pending", data |-> NoContent]
NullItem == [state |-> "null", data |-> NoContent]

NoResp ==
    [handler |-> "none", status |-> 0, method |-> "", auth |-> AuthAbsent,
     parsed |-> FALSE, calls |-> 0, slug |-> "", visible |-> "",
     showHidden |-> FALSE, items |-> <<>>, results |-> [s \in Slugs |-> NoResult],
     data |-> NoContent]

\* String.prototype.trim on the slugs of the model
Trim(s) == IF s = " " THEN "" ELSE s

Proceed == 0

(***************************************************************************)
(* update-visible.  An invocation suspends at the storage list, the fetch  *)
(* and the upload; UVGate is everything before the first storage call.     *)
(***************************************************************************)
UVProcs == {"u1", "u2"}

\* The invocations of update-visible that run in Spec.
SpecProcs == {"u1"}

VisibleInputs == {"true", "false", "unset"}
BadJsonBody == [json |-> FALSE, slug |-> "", visible |-> "unset"]
DefaultBody == [json |-> TRUE, slug |-> "s1", visible |-> "false"]
UVBodies ==
    {BadJsonBody}
    \cup [json : {TRUE}, slug : {" "}, visible : {"false"}]
    \cup [json : {TRUE}, slug : {"s1"}, visible : VisibleInputs \ {"true"}]


UVRequests ==
    [method : {"OPTIONS", "GET"}, auth : {AuthAbsent, AuthAdmin}, body : {DefaultBody}]
    \cup [method : {"POST"}, auth : AuthHeaders \ {AuthAdmin}, body : {DefaultBody}]
    \cup [method : {"POST"}, auth : {AuthAdmin}, body : UVBodies]

\* update-visible lines 75-100: method, authorization, body, slug.
UVGate(req, secret, now) ==
    IF req.method = "OPTIONS" THEN [status |-> 204, parsed |-> FALSE, slug |-> "", newVisible |-> FALSE]
    ELSE IF req.method # "POST" THEN [status |-> 405, parsed |-> FALSE, slug |-> "", newVisible |-> FALSE]
    ELSE IF requireAdmin(req.auth, secret, now).kind = "null"
    THEN [status |-> 401, parsed |-> FALSE, slug |-> "", newVisible |-> FALSE]
    ELSE IF ~req.body.json THEN [status |-> 400, parsed |-> TRUE, slug |-> "", newVisible |-> FALSE]
    ELSE IF Trim(req.body.slug) = ""
    THEN [status |-> 400, parsed |-> TRUE, slug |-> "", newVisible |-> (req.body.visible # "false")]
    ELSE [status |-> Proceed, parsed |-> TRUE, slug |-> Trim(req.body.slug),
          newVisible |-> (req.body.visible # "false")]

UVIdle ==
    [pc |-> "idle", method |-> "", auth |-> AuthAbsent, slug |-> "",
     newVisible |-> FALSE, chosen |-> NoDesc, data |-> NoContent, calls |-> 0]

\* return sendJSON(..., code) of an invocation past the gate
UVResp(rec, code) ==
    [NoResp EXCEPT !.handler = "update", !.status = code, !.method = rec.method,
                   !.auth = rec.auth, !.parsed = TRUE, !.calls = rec.calls,
                   !.slug = rec.slug,
                   !.visible = IF rec.newVisible THEN "true" ELSE "false"]

UVAccept(p, requests) ==
    /\ uv[p].pc = "idle"
    /\ nreq < MaxReq
    /\ \E req \in requests :
          LET g == UVGate(req, envSecret, nowMs)
          IN  IF g.status = Proceed
              THEN /\ uv' = [uv EXCEPT ![p] =
                               [UVIdle EXCEPT !.pc = "list", !.method = req.method,
                                              !.auth = req.auth, !.slug = g.slug,
                                              !.newVisible = g.newVisible]]
                   /\ resp' = resp
              ELSE /\ uv' = uv
                   /\ resp' = [NoResp EXCEPT !.handler = "update", !.status = g.status,
                                             !.method = req.method, !.auth = req.auth,
                                             !.parsed = g.parsed]
    /\ nreq' = nreq + 1
    /\ clean' = IF uv'[p].pc = "idle" THEN clean ELSE clean \cup {p}
    /\ lastOp' = lastOp
    /\ UNCHANGED <<storage, wroteBack, lp, cp, dp, selVars, jwtVars,
                   readVars, loginVars, auxVars>>

UVRequest(p) == UVAccept(p, UVRequests)

\* lines 105-138: list under the slug's prefix, fold, 404 when nothing matches
UVList(p) ==
    /\ uv[p].pc = "list"
    /\ \E order \in Orderings(Listed(storage, {uv[p].slug})) :
          LET ch == UVFoldAll(uv[p].slug, NoDesc, order)
              rec == [uv[p] EXCEPT !.chosen = ch, !.calls = @ + 1]
          IN  IF ch = NoDesc
              THEN uv' = [uv EXCEPT ![p] = UVIdle] /\ resp' = UVResp(rec, 404)
              ELSE uv' = [uv EXCEPT ![p] = [rec EXCEPT !.pc = "fetch"]] /\ resp' = resp
    /\ clean' = IF uv'[p].pc = "idle" THEN clean \ {p} ELSE clean
    /\ lastOp' = lastOp
    /\ UNCHANGED <<storage, wroteBack, lp, cp, dp, nreq, selVars, jwtVars,
                   readVars, loginVars, auxVars>>

\* lines 141-158: versioned fetch, parse, data.visible = newVisible
UVFetch(p) ==
    /\ uv[p].pc = "fetch"
    /\ \E r \in FetchOutcomes(storage, VersionedUrl(uv[p].chosen)) :
          LET rec == [uv[p] EXCEPT !.calls = @ + 1]
          IN  IF ~r.ok \/ ~ParsedTruthy(r.body)
              THEN uv' = [uv EXCEPT ![p] = UVIdle] /\ resp' = UVResp(rec, 500)
              ELSE /\ uv' = [uv EXCEPT ![p] =
                               [rec EXCEPT !.pc = "upload",
                                           !.data = WithVisible(r.body, rec.newVisible)]]
                   /\ resp' = resp
    /\ clean' = IF uv'[p].pc = "idle" THEN clean \ {p} ELSE clean
    /\ lastOp' = lastOp
    /\ UNCHANGED <<storage, wroteBack, lp, cp, dp, nreq, selVars, jwtVars,
                   readVars, loginVars, auxVars>>

\* lines 164-178: upload to the canonical public_id, respond ok
UVUpload(p) ==
    /\ uv[p].pc = "upload"
    /\ LET canonicalPid == CanonicalPid(uv[p].chosen.public_id)
       IN  \E v \in NextVersions(storage, canonicalPid) :
               storage' = Uploaded(storage, canonicalPid, uv[p].data, v)
    /\ wroteBack' = wroteBack \cup {uv[p].slug}
    /\ resp' = UVResp([uv[p] EXCEPT !.calls = @ + 1], 200)
    /\ uv' = [uv EXCEPT ![p] = UVIdle]
    /\ lastOp' = [lastOp EXCEPT ![uv[p].slug] = IF uv[p].newVisible THEN "show" ELSE "hide"]
    /\ clean' = {}
    /\ UNCHANGED <<lp, cp, dp, nreq, selVars, jwtVars,
                   readVars, loginVars, auxVars>>

\* lines 179-185: a storage call that throws ends the request with 500
UVStorageError(p) ==
    /\ uv[p].pc \in {"list", "upload"}
    /\ resp' = UVResp([uv[p] EXCEPT !.calls = @ + 1], 500)
    /\ uv' = [uv EXCEPT ![p] = UVIdle]
    /\ clean' = clean \ {p}
    /\ lastOp' = lastOp
    /\ UNCHANGED <<storage, wroteBack, lp, cp, dp, nreq, selVars, jwtVars,
                   readVars, loginVars, auxVars>>

(***************************************************************************)
(* list-posts.  The invocation suspends at the listing and at each of the  *)
(* concurrent fetches.                                                     *)
(***************************************************************************)
LPRequests ==
    [method : {"OPTIONS", "POST"}, showHidden : {FALSE}, auth : {AuthAbsent}]
    \cup [method : {"GET"}, showHidden : {FALSE}, auth : {AuthAbsent}]
    \cup [method : {"GET"}, showHidden : {TRUE}, auth : AuthHeaders]

\* The gate that lets every caller of showHidden=1 through.
LPGateOpen(req, secret, now) ==
    IF req.method = "OPTIONS" THEN [status |-> 204, allowShowHidden |-> FALSE]
    ELSE IF req.method # "GET" THEN [status |-> 405, allowShowHidden |-> FALSE]
    ELSE [status |-> Proceed, allowShowHidden |-> req.showHidden]

\* list-posts lines 97-120: method, showHidden=1, requireAdmin
LPGate(req, secret, now) ==
    IF req.method = "OPTIONS" THEN [status |-> 204, allowShowHidden |-> FALSE]
    ELSE IF req.method # "GET" THEN [status |-> 405, allowShowHidden |-> FALSE]
    ELSE IF req.showHidden /\ requireAdmin_list(req.auth, secret, now).kind = "null"
    THEN [status |-> 401, allowShowHidden |-> FALSE]
    ELSE [status |-> Proceed, allowShowHidden |-> req.showHidden]

LPIdle ==
    [pc |-> "idle", method |-> "", showHidden |-> FALSE, auth |-> AuthAbsent,
     allowShowHidden |-> FALSE, targets |-> [s \in Slugs |-> NoDesc],
     results |-> [s \in Slugs |-> NoResult]]

\* lines 206-215: the entry built from a fetched record
Item(slug, data) ==
    [slug |-> slug, visible |-> (data.visible # "false"), date |-> data.date]

\* lines 227-233: .sort(by date, newest first)
SortedItems(S) ==
    CHOOSE seq \in Orderings(S) :
        \A i, j \in 1..Len(seq) : i < j => seq[i].date >= seq[j].date

\* The response that is empty as soon as one fetch has failed.
LPResponseItemsAllOrNothing(results, allowShowHidden) ==
    LET fetched == {Item(s, results[s].data) : s \in {x \in Slugs : results[x].state = "item"}}
        shown == IF ~allowShowHidden THEN {it \in fetched : it.visible # FALSE} ELSE fetched
    IN  IF \E s \in Slugs : results[s].state = "null" THEN <<>> ELSE SortedItems(shown)

\* The response with the visibility filter applied to the admin listing too.
LPResponseItemsAlwaysFiltered(results, allowShowHidden) ==
    LET fetched == {Item(s, results[s].data) : s \in {x \in Slugs : results[x].state = "item"}}
    IN  SortedItems({it \in fetched : it.visible # FALSE})

\* lines 227-238: drop the failed fetches, sort, filter unless admin
LPResponseItems(results, allowShowHidden) ==
    LET fetched == {Item(s, results[s].data) : s \in {x \in Slugs : results[x].state = "item"}}
        shown == IF ~allowShowHidden THEN {it \in fetched : it.visible # FALSE} ELSE fetched
    IN  SortedItems(shown)

LPResp(rec, code) ==
    [NoResp EXCEPT !.handler = "list", !.status = code, !.method = rec.method,
                   !.auth = rec.auth, !.showHidden = rec.showHidden]

LPAccept(requests) ==
    /\ lp.pc = "idle"
    /\ nreq < MaxReq
    /\ \E req \in requests :
          LET g == LPGate(req, envSecret, nowMs)
          IN  IF g.status = Proceed
              THEN /\ lp' = [LPIdle EXCEPT !.pc = "list", !.method = req.method,
                                           !.showHidden = req.showHidden, !.auth = req.auth,
                                           !.allowShowHidden = g.allowShowHidden]
                   /\ resp' = resp
              ELSE /\ lp' = lp
                   /\ resp' = LPResp(req, g.status)
    /\ nreq' = nreq + 1
    /\ clean' = IF lp'.pc = "idle" THEN clean ELSE clean \cup {"lp"}
    /\ lastOp' = lastOp
    /\ UNCHANGED <<storage, wroteBack, uv, cp, dp, selVars, jwtVars,
                   readVars, loginVars, auxVars>>

LPRequest == LPAccept(LPRequests)

\* STEP 1 and STEP 2: enumerate everything under collages/, fold per slug
LPList ==
    /\ lp.pc = "list"
    /\ \E order \in Orderings(Listed(storage, Slugs)) :
          LET map == LPFoldAll([s \in Slugs |-> NoDesc], order)
          IN  lp' = [lp EXCEPT !.pc = "fetch", !.targets = map,
                               !.results = [s \in Slugs |->
                                   IF map[s] = NoDesc THEN NoResult ELSE PendingResult]]
    /\ UNCHANGED <<storage, wroteBack, resp, uv, cp, dp, nreq, selVars, jwtVars,
                   readVars, histVars, loginVars, auxVars>>

\* STEP 3: the fetch of one slug's chosen object; any failure yields null
LPFetch(s) ==
    /\ lp.pc = "fetch"
    /\ lp.results[s].state = "pending"
    /\ \E r \in FetchOutcomes(storage, VersionedUrl(lp.targets[s])) :
          lp' = [lp EXCEPT !.results[s] =
                    IF ~r.ok THEN NullItem
                    ELSE IF ~ParsedTruthy(r.body) THEN NullItem
                    ELSE [state |-> "item", data |-> r.body]]
    /\ UNCHANGED <<storage, wroteBack, resp, uv, cp, dp, nreq, selVars, jwtVars,
                   readVars, histVars, loginVars, auxVars>>

\* STEP 4 and STEP 5: once every fetch has settled
LPRespond ==
    /\ lp.pc = "fetch"
    /\ \A s \in Slugs : lp.results[s].state # "pending"
    /\ resp' = [LPResp(lp, 200) EXCEPT
                   !.items = LPResponseItems(lp.results, lp.allowShowHidden),
                   !.results = lp.results]
    /\ lp' = LPIdle
    /\ clean' = clean \ {"lp"}
    /\ lastOp' = lastOp
    /\ UNCHANGED <<storage, wroteBack, uv, cp, dp, nreq, selVars, jwtVars,
                   readVars, loginVars, auxVars>>

\* lines 244-246: a listing call that throws ends the request with 500
LPStorageError ==
    /\ lp.pc = "list"
    /\ resp' = LPResp(lp, 500)
    /\ lp' = LPIdle
    /\ clean' = clean \ {"lp"}
    /\ lastOp' = lastOp
    /\ UNCHANGED <<storage, wroteBack, uv, cp, dp, nreq, selVars, jwtVars,
                   readVars, loginVars, auxVars>>

(***************************************************************************)
(* create-post.  The invocation suspends at the upload.                    *)
(***************************************************************************)
CPBodies ==
    { [json |-> FALSE, slug |-> "", items |-> "missing", visible |-> "unset"],
      [json |-> TRUE, slug |-> "", items |-> "one", visible |-> "unset"],
      [json |-> TRUE, slug |-> " ", items |-> "one", visible |-> "unset"],
      [json |-> TRUE, slug |-> "s1", items |-> "missing", visible |-> "unset"],
      [json |-> TRUE, slug |-> "s1", items |-> "empty", visible |-> "unset"],
      [json |-> TRUE, slug |-> "s1", items |-> "one", visible |-> "unset"],
      [json |-> TRUE, slug |-> "s1", items |-> "one", visible |-> "false"] }

DefaultCreateBody == [json |-> TRUE, slug |-> "s1", items |-> "one", visible |-> "unset"]

CPRequests ==
    [method : {"OPTIONS", "GET"}, auth : {AuthAbsent, AuthAdmin}, body : {DefaultCreateBody}]
    \cup [method : {"POST"}, auth : AuthHeaders \ {AuthAdmin}, body : {DefaultCreateBody}]
    \cup [method : {"POST"}, auth : {AuthAdmin}, body : CPBodies]

\* The items check that lets an empty array through.
ItemsMissingLax(items) == items = "missing"

\* !Array.isArray(items) || items.length === 0, for the items of the model:
\* "missing" is no array, "empty" the empty array.
ItemsMissing(items) == items \in {"missing", "empty"}

\* The gate with the authorization check left out.
CPGateNoAuth(req, secret, now) ==
    IF req.method = "OPTIONS" THEN [status |-> 204, parsed |-> FALSE, slug |-> "", visible |-> "", items |-> ""]
    ELSE IF req.method # "POST" THEN [status |-> 405, parsed |-> FALSE, slug |-> "", visible |-> "", items |-> ""]
    ELSE IF ~req.body.json THEN [status |-> 400, parsed |-> TRUE, slug |-> "", visible |-> "", items |-> ""]
    ELSE IF req.body.slug = "" \/ Trim(req.body.slug) = ""
    THEN [status |-> 400, parsed |-> TRUE, slug |-> "", visible |-> "", items |-> ""]
    ELSE IF ItemsMissing(req.body.items)
    THEN [status |-> 400, parsed |-> TRUE, slug |-> "", visible |-> "", items |-> ""]
    ELSE [status |-> Proceed, parsed |-> TRUE, slug |-> req.body.slug,
          visible |-> IF req.body.visible \in {"true", "false"} THEN req.body.visible ELSE "true",
          items |-> req.body.items]

\* create-post lines 109-153: method, authorization, body, slug, items, record
CPGate(req, secret, now) ==
    IF req.method = "OPTIONS" THEN [status |-> 204, parsed |-> FALSE, slug |-> "", visible |-> "", items |-> ""]
    ELSE IF req.method # "POST" THEN [status |-> 405, parsed |-> FALSE, slug |-> "", visible |-> "", items |-> ""]
    ELSE IF requireAdmin_create(req.auth, secret, now).kind = "null"
    THEN [status |-> 401, parsed |-> FALSE, slug |-> "", visible |-> "", items |-> ""]
    ELSE IF ~req.body.json THEN [status |-> 400, parsed |-> TRUE, slug |-> "", visible |-> "", items |-> ""]
    ELSE IF req.body.slug = "" \/ Trim(req.body.slug) = ""
    THEN [status |-> 400, parsed |-> TRUE, slug |-> "", visible |-> "", items |-> ""]
    ELSE IF ItemsMissing(req.body.items)
    THEN [status |-> 400, parsed |-> TRUE, slug |-> "", visible |-> "", items |-> ""]
    ELSE [status |-> Proceed, parsed |-> TRUE, slug |-> req.body.slug,
          visible |-> IF req.body.visible \in {"true", "false"} THEN req.body.visible ELSE "true",
          items |-> req.body.items]

CPIdle ==
    [pc |-> "idle", method |-> "", auth |-> AuthAbsent, slug |-> "", visible |-> "",
     items |-> ""]

CPResp(rec, code, calls) ==
    [NoResp EXCEPT !.handler = "create", !.status = code, !.method = rec.method,
                   !.auth = rec.auth, !.parsed = TRUE, !.calls = calls,
                   !.slug = rec.slug, !.visible = rec.visible]

CPAccept(requests) ==
    /\ cp.pc = "idle"
    /\ nreq < MaxReq
    /\ \E req \in requests :
          LET g == CPGate(req, envSecret, nowMs)
          IN  IF g.status = Proceed
              THEN /\ cp' = [CPIdle EXCEPT !.pc = "upload", !.method = req.method,
                                           !.auth = req.auth, !.slug = g.slug,
                                           !.visible = g.visible, !.items = g.items]
                   /\ resp' = resp
              ELSE /\ cp' = cp
                   /\ resp' = [NoResp EXCEPT !.handler = "create", !.status = g.status,
                                             !.method = req.method, !.auth = req.auth,
                                             !.parsed = g.parsed]
    /\ nreq' = nreq + 1
    /\ UNCHANGED <<storage, wroteBack, uv, lp, dp, selVars, jwtVars,
                   readVars, histVars, loginVars, auxVars>>

CPRequest == CPAccept(CPRequests)

\* lines 155-171: upload the record to collages/<slug>/data
CPUpload ==
    /\ cp.pc = "upload"
    /\ LET key == [slug |-> cp.slug, name |-> "data"]
       IN  \E v \in NextVersions(storage, key) :
               storage' = Uploaded(storage, key, RecordOf(cp.slug, cp.visible, cp.items), v)
    /\ resp' = CPResp(cp, 200, 1)
    /\ cp' = CPIdle
    /\ lastOp' = [lastOp EXCEPT ![cp.slug] = "create"]
    /\ clean' = {}
    /\ UNCHANGED <<wroteBack, uv, lp, dp, nreq, selVars, jwtVars,
                   readVars, loginVars, auxVars>>

\* lines 172-174: an upload that throws ends the request with 500
CPStorageError ==
    /\ cp.pc = "upload"
    /\ resp' = CPResp(cp, 500, 1)
    /\ cp' = CPIdle
    /\ UNCHANGED <<storage, wroteBack, uv, lp, dp, nreq, selVars, jwtVars,
                   readVars, histVars, loginVars, auxVars>>

(***************************************************************************)
(* delete-post.  The invocation suspends at each of its three storage      *)
(* calls: images by prefix, raw files by prefix, the folder.               *)
(***************************************************************************)
DPBodies ==
    { [json |-> FALSE, slug |-> ""], [json |-> TRUE, slug |-> " "],
      [json |-> TRUE, slug |-> "s1"] }

DPRequests ==
    [method : {"OPTIONS", "GET"}, auth : {AuthAbsent, AuthAdmin}, body : {[json |-> TRUE, slug |-> "s1"]}]
    \cup [method : {"POST"}, auth : AuthHeaders \ {AuthAdmin}, body : {[json |-> TRUE, slug |-> "s1"]}]
    \cup [method : {"POST"}, auth : {AuthAdmin}, body : DPBodies]

\* delete-post lines 121-143: method, authorization, body, slug
DPGate(req, secret, now) ==
    IF req.method = "OPTIONS" THEN [status |-> 204, parsed |-> FALSE, slug |-> ""]
    ELSE IF req.method # "POST" THEN [status |-> 405, parsed |-> FALSE, slug |-> ""]
    ELSE IF requireAdmin_delete(req.auth, secret, now).kind = "null"
    THEN [status |-> 401, parsed |-> FALSE, slug |-> ""]
    ELSE IF ~req.body.json THEN [status |-> 400, parsed |-> TRUE, slug |-> ""]
    ELSE IF Trim(req.body.slug) = "" THEN [status |-> 400, parsed |-> TRUE, slug |-> ""]
    ELSE [status |-> Proceed, parsed |-> TRUE, slug |-> Trim(req.body.slug)]

DPIdle ==
    [pc |-> "idle", method |-> "", auth |-> AuthAbsent, slug |-> "", calls |-> 0]

DPResp(rec, code) ==
    [NoResp EXCEPT !.handler = "delete", !.status = code, !.method = rec.method,
                   !.auth = rec.auth, !.parsed = TRUE, !.calls = rec.calls,
                   !.slug = rec.slug]

\* The deletion that removes the extensionless key only.
DeletedCanonicalOnly(st, slug) ==
    [k \in StoreKeys |->
        IF k = [slug |-> slug, name |-> "data"] THEN [st[k] EXCEPT !.present = FALSE, !.content = NoContent]
        ELSE st[k]]

\* delete_resources_by_prefix(`collages/${slug}/`, {resource_type: 'raw'}):
\* every object under the slug is gone; the key keeps its version counter.
DeletedByPrefix(st, slug) ==
    [k \in StoreKeys |->
        IF k.slug = slug
        THEN [present |-> FALSE, version |-> st[k].version, content |-> NoContent]
        ELSE st[k]]

DPAccept(requests) ==
    /\ dp.pc = "idle"
    /\ nreq < MaxReq
    /\ \E req \in requests :
          LET g == DPGate(req, envSecret, nowMs)
          IN  IF g.status = Proceed
              THEN /\ dp' = [DPIdle EXCEPT !.pc = "images", !.method = req.method,
                                           !.auth = req.auth, !.slug = g.slug]
                   /\ resp' = resp
              ELSE /\ dp' = dp
                   /\ resp' = [NoResp EXCEPT !.handler = "delete", !.status = g.status,
                                             !.method = req.method, !.auth = req.auth,
                                             !.parsed = g.parsed]
    /\ nreq' = nreq + 1
    /\ UNCHANGED <<storage, wroteBack, uv, lp, cp, selVars, jwtVars,
                   readVars, histVars, loginVars, auxVars>>

DPRequest == DPAccept(DPRequests)

\* lines 151-154: the images under the prefix (they are not data objects)
DPDeleteImages ==
    /\ dp.pc = "images"
    /\ dp' = [dp EXCEPT !.pc = "raw", !.calls = @ + 1]
    /\ UNCHANGED <<storage, wroteBack, resp, uv, lp, cp, nreq, selVars, jwtVars,
                   readVars, histVars, loginVars, auxVars>>

\* lines 156-159: the raw files under the prefix
DPDeleteRaw ==
    /\ dp.pc = "raw"
    /\ storage' = DeletedByPrefix(storage, dp.slug)
    /\ dp' = [dp EXCEPT !.pc = "folder", !.calls = @ + 1]
    /\ lastOp' = [lastOp EXCEPT ![dp.slug] = "delete"]
    /\ clean' = {}
    /\ UNCHANGED <<wroteBack, resp, uv, lp, cp, nreq, selVars, jwtVars,
                   readVars, loginVars, auxVars>>

\* lines 163-165: the folder, then ok
DPDeleteFolder ==
    /\ dp.pc = "folder"
    /\ resp' = DPResp([dp EXCEPT !.calls = @ + 1], 200)
    /\ dp' = DPIdle
    /\ UNCHANGED <<storage, wroteBack, uv, lp, cp, nreq, selVars, jwtVars,
                   readVars, histVars, loginVars, auxVars>>

\* lines 166-176: a storage call that throws ends the request with 500
DPStorageError ==
    /\ dp.pc \in {"images", "raw", "folder"}
    /\ resp' = DPResp([dp EXCEPT !.calls = @ + 1], 500)
    /\ dp' = DPIdle
    /\ UNCHANGED <<storage, wroteBack, uv, lp, cp, nreq, selVars, jwtVars,
                   readVars, histVars, loginVars, auxVars>>

(***************************************************************************)
(* Spec: the handlers against the storage.  The storage starts with the    *)
(* objects of earlier writes: either key of s1, at version 1 or 2, with    *)
(* equal or differing content, and possibly the canonical key of s2.  The  *)
(* deployment has its storage credentials and its token secret configured. *)
(***************************************************************************)
InitialData ==
    { NoObject,
      [present |-> TRUE, version |-> 1, content |-> Record("s1", "false")],
      [present |-> TRUE, version |-> 2, content |-> Record("s1", "true")] }

InitialDataJson ==
    { NoObject,
      [present |-> TRUE, version |-> 1, content |-> Garbage],
      [present |-> TRUE, version |-> 2, content |-> Record("s1", "true")],
      [present |-> TRUE, version |-> 2, content |-> Record("s1", "false")] }

InitialS2 ==
    { NoObject,
      [present |-> TRUE, version |-> 1, content |-> Record("s2", "unset")] }

StorageInits ==
    { st \in [StoreKeys -> InitialData \cup InitialDataJson \cup InitialS2] :
        /\ st[[slug |-> "s1", name |-> "data"]] \in InitialData
        /\ st[[slug |-> "s1", name |-> "data.json"]] \in InitialDataJson
        /\ st[[slug |-> "s2", name |-> "data"]] \in InitialS2
        /\ st[[slug |-> "s2", name |-> "data.json"]] = NoObject }

Init ==
    /\ storage \in StorageInits
    /\ wroteBack = {}
    /\ resp = NoResp
    /\ uv = [p \in UVProcs |-> UVIdle]
    /\ lp = LPIdle
    /\ cp = CPIdle
    /\ dp = DPIdle
    /\ nreq = 0
    /\ gp = <<>>
    /\ ex = <<>>
    /\ cdn = <<>>
    /\ lastOp = [s \in Slugs |-> "none"]
    /\ clean = {}
    /\ LoginIdle
    /\ envSecret = ServerSecret
    /\ nowMs = SpecNow
    /\ token = <<>>
    /\ jwtPc = "idle"
    /\ jwtOut = <<>>
    /\ SelIdle
    /\ AuxIdle

Next ==
    \/ \E p \in SpecProcs : UVRequest(p)
    \/ \E p \in SpecProcs : UVList(p)
    \/ \E p \in SpecProcs : UVFetch(p)
    \/ \E p \in SpecProcs : UVUpload(p)
    \/ \E p \in SpecProcs : UVStorageError(p)
    \/ LPRequest
    \/ LPList
    \/ \E s \in Slugs : LPFetch(s)
    \/ LPRespond
    \/ LPStorageError
    \/ CPRequest
    \/ CPUpload
    \/ CPStorageError
    \/ DPRequest
    \/ DPDeleteImages
    \/ DPDeleteRaw
    \/ DPDeleteFolder
    \/ DPStorageError

Spec == Init /\ [][Next]_vars

(***************************************************************************)
(* get-post and export-archive.  Both build the delivery URL of a slug's    *)
(* record without a version segment and fetch it through the CDN edge.     *)
(* cdn[s] is the body the edge holds for the unversioned path of slug s    *)
(* (NoContent when it holds none).                                          *)
(***************************************************************************)

\* The version field of a delivery URL that has no /v<version>/ segment.
Unversioned == 0

\* `https://res.cloudinary.com/${cloud}/raw/upload/collages/${slug}/data.json`
UnversionedUrl(slug) == [slug |-> slug, file |-> "data.json", version |-> Unversioned]

\* fetch(url) of an unversioned path: the edge serves the body it holds for
\* the path, or asks the origin, which serves an object stored at that path
\* (either key of the slug is delivered as data.json), or the response is
\* not ok (no such object, or the call fails).
UnversionedOutcomes(st, cache, url) ==
    {[ok |-> TRUE, body |-> st[k].content] :
        k \in {x \in StoreKeys : x.slug = url.slug /\ st[x].present}}
    \cup (IF cache[url.slug] = NoContent THEN {} ELSE {[ok |-> TRUE, body |-> cache[url.slug]]})
    \cup {NotOk}

\* The edge keeps the body of an ok response for the path.
Cached(cache, url, r) == IF r.ok THEN [cache EXCEPT ![url.slug] = r.body] ELSE cache

ReadIdle == [pc |-> "idle", method |-> "", slug |-> "", url |-> UnversionedUrl("")]

ReadResp(handler, rec, code, body) ==
    [NoResp EXCEPT !.handler = handler, !.status = code, !.method = rec.method,
                   !.slug = rec.slug, !.data = body]

GPRequests == [method : {"GET"}, slug : {"", "s1"}] \cup [method : {"OPTIONS", "POST"}, slug : {"s1"}]

\* get-post lines 35-47: method, slug
GPGate(req) ==
    IF req.method = "OPTIONS" THEN 204
    ELSE IF req.method # "GET" THEN 405
    ELSE IF req.slug = "" THEN 400
    ELSE Proceed

\* get-post lines 33-52: the gate, then dataUrl
GPAccept(requests) ==
    /\ gp.pc = "idle"
    /\ nreq < MaxReq
    /\ \E req \in requests :
          IF GPGate(req) = Proceed
          THEN /\ gp' = [ReadIdle EXCEPT !.pc = "fetch", !.method = req.method,
                                         !.slug = req.slug, !.url = UnversionedUrl(req.slug)]
               /\ resp' = resp
          ELSE /\ gp' = gp
               /\ resp' = ReadResp("get", [ReadIdle EXCEPT !.method = req.method], GPGate(req),
                                   NoContent)
    /\ nreq' = nreq + 1
    /\ clean' = IF gp'.pc = "idle" THEN clean ELSE clean \cup {"gp"}
    /\ lastOp' = lastOp
    /\ UNCHANGED <<storage, wroteBack, uv, lp, cp, dp, ex, cdn, selVars, jwtVars, loginVars, auxVars>>

GPRequest == GPAccept(GPRequests)

\* get-post lines 54-65: fetch, 404 when not ok, 500 when the body is no
\* truthy JSON value, else the body itself with 200
GPFetch ==
    /\ gp.pc = "fetch"
    /\ \E r \in UnversionedOutcomes(storage, cdn, gp.url) :
          /\ resp' = IF ~r.ok THEN ReadResp("get", gp, 404, NoContent)
                     ELSE IF ~ParsedTruthy(r.body) THEN ReadResp("get", gp, 500, NoContent)
                     ELSE ReadResp("get", gp, 200, r.body)
          /\ cdn' = Cached(cdn, gp.url, r)
    /\ gp' = ReadIdle
    /\ clean' = clean \ {"gp"}
    /\ lastOp' = lastOp
    /\ UNCHANGED <<storage, wroteBack, uv, lp, cp, dp, nreq, ex, selVars, jwtVars, loginVars, auxVars>>

\* get-post lines 66-76: fetch throws, the catch answers 500
GPFetchError ==
    /\ gp.pc = "fetch"
    /\ resp' = ReadResp("get", gp, 500, NoContent)
    /\ gp' = ReadIdle
    /\ clean' = clean \ {"gp"}
    /\ lastOp' = lastOp
    /\ UNCHANGED <<storage, wroteBack, uv, lp, cp, dp, nreq, ex, cdn, selVars, jwtVars, loginVars, auxVars>>

EXRequests == [method : {"GET"}, slug : {"", "s1"}] \cup [method : {"OPTIONS"}, slug : {"s1"}]

\* export-archive lines 17-23: preflight, slug (no other method is refused)
EXGate(req) ==
    IF req.method = "OPTIONS" THEN 204
    ELSE IF req.slug = "" THEN 400
    ELSE Proceed

\* export-archive lines 16-25: the gate, then dataUrl
EXAccept(requests) ==
    /\ ex.pc = "idle"
    /\ nreq < MaxReq
    /\ \E req \in requests :
          IF EXGate(req) = Proceed
          THEN /\ ex' = [ReadIdle EXCEPT !.pc = "fetch", !.method = req.method,
                                         !.slug = req.slug, !.url = UnversionedUrl(req.slug)]
               /\ resp' = resp
          ELSE /\ ex' = ex
               /\ resp' = ReadResp("export", [ReadIdle EXCEPT !.method = req.method],
                                   EXGate(req), NoContent)
    /\ nreq' = nreq + 1
    /\ clean' = IF ex'.pc = "idle" THEN clean ELSE clean \cup {"ex"}
    /\ lastOp' = lastOp
    /\ UNCHANGED <<storage, wroteBack, uv, lp, cp, dp, gp, cdn, selVars, jwtVars, loginVars, auxVars>>

EXRequest == EXAccept(EXRequests)

\* export-archive lines 26-70: fetch, 404 when not ok; r.json() throws on
\* bytes that are no JSON (catch, 500); items that are no non-empty array
\* give 400; else the archive of the record's items with 200 (an item whose
\* image fetch fails is skipped).
EXFetch ==
    /\ ex.pc = "fetch"
    /\ \E r \in UnversionedOutcomes(storage, cdn, ex.url) :
          /\ resp' = IF ~r.ok THEN ReadResp("export", ex, 404, NoContent)
                     ELSE IF ~ParsedTruthy(r.body) THEN ReadResp("export", ex, 500, NoContent)
                     ELSE IF r.body.items \notin {"one", "old"}
                     THEN ReadResp("export", ex, 400, NoContent)
                     ELSE ReadResp("export", ex, 200, r.body)
          /\ cdn' = Cached(cdn, ex.url, r)
    /\ ex' = ReadIdle
    /\ clean' = clean \ {"ex"}
    /\ lastOp' = lastOp
    /\ UNCHANGED <<storage, wroteBack, uv, lp, cp, dp, nreq, gp, selVars, jwtVars, loginVars, auxVars>>

\* export-archive lines 71-73: fetch throws, the catch answers 500
EXFetchError ==
    /\ ex.pc = "fetch"
    /\ resp' = ReadResp("export", ex, 500, NoContent)
    /\ ex' = ReadIdle
    /\ clean' = clean \ {"ex"}
    /\ lastOp' = lastOp
    /\ UNCHANGED <<storage, wroteBack, uv, lp, cp, dp, nreq, gp, cdn, selVars, jwtVars, loginVars, auxVars>>

(***************************************************************************)
(* FlowSpec: the six handlers together, called by an admin and by          *)
(* anonymous readers on slug s1, with two concurrent invocations of        *)
(* update-visible and the CDN edge in front of the unversioned paths.      *)
(***************************************************************************)

FlowUVRequests ==
    [method : {"POST"}, auth : {AuthAdmin},
     body : [json : {TRUE}, slug : {"s1"}, visible : {"true", "false"}]]

FlowLPRequests == [method : {"GET"}, showHidden : {FALSE}, auth : {AuthAbsent}]

FlowCPRequests ==
    [method : {"POST"}, auth : {AuthAdmin},
     body : [json : {TRUE}, slug : {"s1"}, items : {"one"}, visible : {"unset", "false"}]]

FlowDPRequests == [method : {"POST"}, auth : {AuthAdmin}, body : {[json |-> TRUE, slug |-> "s1"]}]

FlowGPRequests == [method : {"GET"}, slug : {"", "s1"}]

FlowEXRequests == [method : {"GET"}, slug : {"s1"}]

\* What is stored under s1 when the behaviour starts: nothing, the canonical
\* key only, the .json key only, both with the .json one stale (older
\* content, either object the newer), or a .json object that is no record.
Stored(v, content) == [present |-> TRUE, version |-> v, content |-> content]

FlowS1Inits ==
    { <<NoObject, NoObject>>,
      <<Stored(1, RecordOf("s1", "true", "one")), NoObject>>,
      <<NoObject, Stored(2, RecordOf("s1", "true", "one"))>>,
      <<Stored(1, RecordOf("s1", "true", "one")), Stored(2, RecordOf("s1", "true", "old"))>>,
      <<Stored(2, RecordOf("s1", "true", "one")), Stored(1, RecordOf("s1", "true", "old"))>>,
      <<NoObject, Stored(1, JsonArray)>>,
      <<NoObject, Stored(1, Garbage)>> }

FlowStorage(pair) ==
    [k \in StoreKeys |->
        IF k.slug = "s1" THEN (IF k.name = "data" THEN pair[1] ELSE pair[2])
        ELSE IF k.name = "data" THEN Stored(1, Record("s2", "unset"))
        ELSE NoObject]

\* The edge holds nothing for s1, or the body of an earlier version of it.
FlowCaches ==
    {[s \in Slugs |-> NoContent],
     [s \in Slugs |-> IF s = "s1" THEN RecordOf("s1", "true", "old") ELSE NoContent]}

FlowInit ==
    /\ \E pair \in FlowS1Inits : storage = FlowStorage(pair)
    /\ cdn \in FlowCaches
    /\ wroteBack = {}
    /\ resp = NoResp
    /\ uv = [p \in UVProcs |-> UVIdle]
    /\ lp = LPIdle
    /\ cp = CPIdle
    /\ dp = DPIdle
    /\ gp = ReadIdle
    /\ ex = ReadIdle
    /\ nreq = 0
    /\ lastOp = [s \in Slugs |-> "none"]
    /\ clean = {}
    /\ LoginIdle
    /\ envSecret = ServerSecret
    /\ nowMs = SpecNow
    /\ token = <<>>
    /\ jwtPc = "idle"
    /\ jwtOut = <<>>
    /\ SelIdle
    /\ AuxIdle

FlowNext ==
    \/ \E p \in UVProcs : UVAccept(p, FlowUVRequests)
    \/ \E p \in UVProcs : UVList(p)
    \/ \E p \in UVProcs : UVFetch(p)
    \/ \E p \in UVProcs : UVUpload(p)
    \/ \E p \in UVProcs : UVStorageError(p)
    \/ LPAccept(FlowLPRequests)
    \/ LPList
    \/ \E s \in Slugs : LPFetch(s)
    \/ LPRespond
    \/ LPStorageError
    \/ CPAccept(FlowCPRequests)
    \/ CPUpload
    \/ CPStorageError
    \/ DPAccept(FlowDPRequests)
    \/ DPDeleteImages
    \/ DPDeleteRaw
    \/ DPDeleteFolder
    \/ DPStorageError
    \/ GPAccept(FlowGPRequests)
    \/ GPFetch
    \/ GPFetchError
    \/ EXAccept(FlowEXRequests)
    \/ EXFetch
    \/ EXFetchError

FlowSpec == FlowInit /\ [][FlowNext]_vars

(***************************************************************************)
(* PageSpec: STEP 1 and STEP 2 of list-posts in detail.  The storage       *)
(* answers each cloudinary.api.resources call with one page; a page that   *)
(* is not the last carries the cursor of the page after it.                *)
(***************************************************************************)

\* let nextCursor; (undefined), and a page without next_cursor
NoCursor == 0

PageDescs ==
    { [public_id |-> [slug |-> "s1", name |-> "data"], version |-> 1],
      [public_id |-> [slug |-> "s1", name |-> "data.json"], version |-> 1],
      [public_id |-> [slug |-> "s2", name |-> "data"], version |-> 1] }

PageContents == UNION {[1..n -> PageDescs] : n \in 0..MaxPageLen}

\* A finite listing the storage may hold, of n pages with the contents c:
\* page k is named by cursor k, the first page is the answer to a call
\* without cursor, the last page carries no next_cursor.
PageChain(n, c) ==
    [k \in 1..n |-> [resources |-> c[k],
                     next_cursor |-> IF k < n THEN k + 1 ELSE NoCursor]]

\* cloudinary.api.resources({..., next_cursor: cursor})
Answer(pages, cursor) == pages[IF cursor = NoCursor THEN 1 ELSE cursor]

\* The loop that takes the first page only.
NextCursorDropped(res) == NoCursor

\* nextCursor = res.next_cursor || undefined
NextCursor(res) == res.next_cursor

PageInit ==
    /\ \E n \in 1..MaxPages : \E c \in [1..n -> PageContents] :
          pg = [pc |-> "list", pages |-> PageChain(n, c), nextCursor |-> NoCursor,
                requested |-> <<>>]
    /\ zip = <<>>
    /\ ks = <<>>
    /\ rawResources = <<>>
    /\ foldIdx = 0
    /\ bySlug = [s \in Slugs |-> NoDesc]
    /\ uvSlug = "s1"
    /\ chosen = NoDesc
    /\ JwtIdle
    /\ SysIdle

\* lines 128-139: one iteration of the do-while, suspended at the call
PageRequest ==
    /\ pg.pc = "list"
    /\ LET res == Answer(pg.pages, pg.nextCursor)
           next == NextCursor(res)
       IN  /\ rawResources' = rawResources \o res.resources
           /\ pg' = [pg EXCEPT !.nextCursor = next,
                               !.requested = Append(@, pg.nextCursor),
                               !.pc = IF next # NoCursor THEN "list" ELSE "fold"]
    /\ UNCHANGED <<foldIdx, bySlug, uvSlug, chosen, zip, ks, jwtVars, sysVars, readVars,
                   histVars, loginVars>>

\* lines 244-246: a listing call that throws ends the request with 500
PageError ==
    /\ pg.pc = "list"
    /\ pg' = [pg EXCEPT !.pc = "failed"]
    /\ UNCHANGED <<selVars, zip, ks, jwtVars, sysVars, readVars, histVars, loginVars>>

\* lines 150-177: one iteration of the fold over rawResources
PageFold ==
    /\ pg.pc = "fold"
    /\ foldIdx < Len(rawResources)
    /\ foldIdx' = foldIdx + 1
    /\ bySlug' = LPFoldOne(bySlug, Incoming)
    /\ UNCHANGED <<rawResources, uvSlug, chosen, auxVars, jwtVars, sysVars, readVars,
                   histVars, loginVars>>

\* line 182: targets = Array.from(bySlug.values()), the fetches start
PageTargets ==
    /\ pg.pc = "fold"
    /\ foldIdx = Len(rawResources)
    /\ pg' = [pg EXCEPT !.pc = "fetch"]
    /\ UNCHANGED <<selVars, zip, ks, jwtVars, sysVars, readVars, histVars, loginVars>>

PageNext == PageRequest \/ PageError \/ PageFold \/ PageTargets

PageSpec == PageInit /\ [][PageNext]_vars

\* Every call to the storage returns or throws, and the synchronous code
\* between two calls runs on.
PageLive == PageSpec /\ WF_vars(PageNext)

(***************************************************************************)
(* ArchiveSpec: the item loop of export-archive in detail.  The loop       *)
(* suspends at the fetch of each item that has a url.                      *)
(***************************************************************************)

\* An item of the record: with or without a url.
ArchiveItems == {[hasUrl |-> TRUE], [hasUrl |-> FALSE]}

ItemLists == UNION {[1..n -> ArchiveItems] : n \in 1..MaxItems}

\* let idx = 1
FirstIdx == 1

ArchiveInit ==
    /\ \E items \in ItemLists :
          zip = [pc |-> "loop", items |-> items, pos |-> 1, idx |-> FirstIdx,
                 files |-> <<>>, skipped |-> {}]
    /\ pg = <<>>
    /\ ks = <<>>
    /\ SelIdle
    /\ JwtIdle
    /\ SysIdle

\* lines 44-48: `if (!url) continue`, `if (!resp.ok) continue`
ArchiveSkip ==
    /\ zip.pc = "loop"
    /\ zip.pos <= Len(zip.items)
    /\ zip' = [zip EXCEPT !.pos = @ + 1, !.skipped = @ \cup {zip.pos}]
    /\ UNCHANGED <<pg, ks, selVars, jwtVars, sysVars, readVars, histVars, loginVars>>

\* lines 44-55: the fetch is ok; the entry is named by String(idx) padded to
\* two digits, then idx++
ArchiveAdd ==
    /\ zip.pc = "loop"
    /\ zip.pos <= Len(zip.items)
    /\ zip.items[zip.pos].hasUrl
    /\ zip' = [zip EXCEPT !.pos = @ + 1, !.idx = @ + 1,
                          !.files = Append(@, [index |-> zip.idx, item |-> zip.pos])]
    /\ UNCHANGED <<pg, ks, selVars, jwtVars, sysVars, readVars, histVars, loginVars>>

\* lines 71-73: fetch(url) throws, the catch answers 500
ArchiveThrow ==
    /\ zip.pc = "loop"
    /\ zip.pos <= Len(zip.items)
    /\ zip.items[zip.pos].hasUrl
    /\ zip' = [zip EXCEPT !.pc = "failed"]
    /\ UNCHANGED <<pg, ks, selVars, jwtVars, sysVars, readVars, histVars, loginVars>>

\* lines 58-70: the loop is over, the archive is generated and sent with 200
ArchiveSend ==
    /\ zip.pc = "loop"
    /\ zip.pos > Len(zip.items)
    /\ zip' = [zip EXCEPT !.pc = "done"]
    /\ UNCHANGED <<pg, ks, selVars, jwtVars, sysVars, readVars, histVars, loginVars>>

ArchiveNext == ArchiveSkip \/ ArchiveAdd \/ ArchiveThrow \/ ArchiveSend

ArchiveSpec == ArchiveInit /\ [][ArchiveNext]_vars

(***************************************************************************)
(* KeySpec: the storage keys of slugs given as character strings.  A slug  *)
(* is a sequence of characters, "a" standing for any character that is     *)
(* neither white space nor a slash; a public_id is the sequence of its     *)
(* path parts and separators.  Stored objects are [pid, version].          *)
(***************************************************************************)
SlugChars == {"a", " ", "/"}

SlugStrings == UNION {[1..n -> SlugChars] : n \in 1..MaxSlugLen}

\* String.prototype.trim
RECURSIVE TrimStart(_)
TrimStart(s) == IF s # <<>> /\ Head(s) = " " THEN TrimStart(Tail(s)) ELSE s

RECURSIVE TrimEnd(_)
TrimEnd(s) ==
    IF s # <<>> /\ s[Len(s)] = " " THEN TrimEnd(SubSeq(s, 1, Len(s) - 1)) ELSE s

TrimStr(s) == TrimEnd(TrimStart(s))

\* `collages/${slug}/data`
DataPid(slug) == <<"collages", "/">> \o slug \o <<"/", "data">>

\* `collages/${slug}/`
FolderPrefix(slug) == <<"collages", "/">> \o slug \o <<"/">>

\* the storage's prefix match
StartsWith(pid, prefix) ==
    Len(pid) >= Len(prefix) /\ SubSeq(pid, 1, Len(prefix)) = prefix

\* the ([^/]+) group of /^collages\/([^/]+)\/data(?:\.json)?$/i, <<>> when
\* the public_id does not match
SlugSegment(pid) ==
    LET seg == SubSeq(pid, 3, Len(pid) - 2)
    IN  IF /\ Len(pid) >= 5
           /\ pid[1] = "collages" /\ pid[2] = "/"
           /\ pid[Len(pid) - 1] = "/" /\ pid[Len(pid)] \in {"data", "data.json"}
           /\ \A i \in 1..Len(seg) : seg[i] # "/"
        THEN seg
        ELSE <<>>

\* create-post line 132: !slug || !String(slug).trim()
SlugRefused(slug) == slug = <<>> \/ TrimStr(slug) = <<>>

KeyIdle == [op |-> "none", slug |-> <<>>, status |-> 0, resolved |-> {}]

KeyInit ==
    /\ ks = [stored |-> {}, created |-> {}, nops |-> 0, last |-> KeyIdle]
    /\ pg = <<>>
    /\ zip = <<>>
    /\ SelIdle
    /\ JwtIdle
    /\ SysIdle

PidsOf(stored) == {o.pid : o \in stored}

\* The objects the storage lists under a prefix.
UnderFolder(stored, prefix) == {o \in stored : StartsWith(o.pid, prefix)}

\* create-post lines 129-169 with a slug string: validation of the trimmed
\* slug, upload to the key built from the slug as given
KeyCreate ==
    /\ Cardinality(ks.created) < MaxCreates
    /\ \E slug \in SlugStrings \ ks.created :
          IF SlugRefused(slug)
          THEN ks' = [ks EXCEPT !.last = [KeyIdle EXCEPT !.op = "create", !.slug = slug,
                                                         !.status = 400]]
          ELSE ks' = [ks EXCEPT
                         !.stored = {o \in @ : o.pid # DataPid(slug)}
                                    \cup {[pid |-> DataPid(slug), version |-> 1]},
                         !.created = @ \cup {slug},
                         !.last = [op |-> "create", slug |-> slug, status |-> 200,
                                   resolved |-> {DataPid(slug)}]]
    /\ UNCHANGED <<pg, zip, selVars, jwtVars, sysVars, readVars, histVars, loginVars>>

\* update-visible lines 94-175 called with the slug string of a created
\* post: trim, list under the prefix, keep the keys the pattern matches,
\* 404 when none, else write the chosen record back to its canonical key
KeyToggle ==
    /\ ks.nops < MaxOps
    /\ \E slug \in ks.created :
          LET trimmed == TrimStr(slug)
              matching == {o \in UnderFolder(ks.stored, FolderPrefix(trimmed)) :
                              SlugSegment(o.pid) # <<>>}
          IN  IF matching = {}
              THEN ks' = [ks EXCEPT !.nops = @ + 1,
                                    !.last = [op |-> "update", slug |-> slug, status |-> 404,
                                              resolved |-> {}]]
              ELSE \E o \in matching :
                      ks' = [ks EXCEPT
                                !.nops = @ + 1,
                                !.stored = (@ \ {o}) \cup {[o EXCEPT !.version = @ + 1]},
                                !.last = [op |-> "update", slug |-> slug, status |-> 200,
                                          resolved |-> {o.pid}]]
    /\ UNCHANGED <<pg, zip, selVars, jwtVars, sysVars, readVars, histVars, loginVars>>

\* delete-post lines 140-165 called with the slug string of a created post:
\* trim, delete everything under the prefix
KeyDelete ==
    /\ ks.nops < MaxOps
    /\ \E slug \in ks.created :
          LET gone == UnderFolder(ks.stored, FolderPrefix(TrimStr(slug)))
          IN  ks' = [ks EXCEPT !.nops = @ + 1,
                               !.stored = @ \ gone,
                               !.last = [op |-> "delete", slug |-> slug, status |-> 200,
                                         resolved |-> PidsOf(gone)]]
    /\ UNCHANGED <<pg, zip, selVars, jwtVars, sysVars, readVars, histVars, loginVars>>

\* list-posts lines 150-155: the keys the pattern matches, one target per
\* slug segment
KeyList ==
    /\ ks.nops < MaxOps
    /\ ks' = [ks EXCEPT !.nops = @ + 1,
                        !.last = [op |-> "list", slug |-> <<>>, status |-> 200,
                                  resolved |-> {o.pid : o \in {x \in ks.stored :
                                                                  SlugSegment(x.pid) # <<>>}}]]
    /\ UNCHANGED <<pg, zip, selVars, jwtVars, sysVars, readVars, histVars, loginVars>>

KeyNext == KeyCreate \/ KeyToggle \/ KeyDelete \/ KeyList

KeySpec == KeyInit /\ [][KeyNext]_vars

(***************************************************************************)
(* Selection claims (C1 - C3), checked under SelSpec.                      *)
(***************************************************************************)
\* Positions among the first n entries of the listing that are candidates of
\* slug s (their key is <s>/data or <s>/data.json).
CandIdx(s, n) ==
    {i \in 1..n : /\ rawResources[i].public_id.slug = s
                  /\ MatchesDataKey(rawResources[i].public_id)}

FoldDone == foldIdx = Len(rawResources)

SomeExtensionless(s, n) ==
    \E i \in CandIdx(s, n) : ~HasJson(rawResources[i].public_id)

SameSuffixStatus(s, n) ==
    \A i, j \in CandIdx(s, n) :
        HasJson(rawResources[i].public_id) = HasJson(rawResources[j].public_id)

MaxVersion(s, n) ==
    CHOOSE v \in Versions :
        /\ \E i \in CandIdx(s, n) : rawResources[i].version = v
        /\ \A i \in CandIdx(s, n) : rawResources[i].version <= v

\* Every enumeration order of the entries of the listing.
Reorderings(seq) ==
    {[i \in 1..Len(seq) |-> seq[f[i]]] : f \in Permutations(1..Len(seq))}

\* C1: when the listing of a slug holds at least one extensionless key, both
\* folds end with an extensionless key chosen, whatever the versions and the
\* enumeration order.
C1_ExtensionlessPreferred ==
    FoldDone =>
        /\ \A s \in Slugs :
              SomeExtensionless(s, foldIdx) => ~HasJson(bySlug[s].public_id)
        /\ SomeExtensionless(uvSlug, foldIdx) => ~HasJson(chosen.public_id)

\* C2: the descriptor chosen for a fixed candidate set is the same for every
\* order in which the listing enumerates the candidates.
C2_OrderIndependent ==
    FoldDone =>
        \A other \in Reorderings(rawResources) :
            /\ LPFoldAll([s \in Slugs |-> NoDesc], other) = bySlug
            /\ UVFoldAll(uvSlug, NoDesc, other) = chosen

\* C3: at every point of the folds, when the candidates of a slug seen so far
\* all have the same suffix status, the chosen descriptor is one of them and
\* carries the greatest version seen (so an equal or lower version has never
\* replaced the choice).
C3_GreatestVersionAmongSameSuffix ==
    /\ \A s \in Slugs :
          (CandIdx(s, foldIdx) # {} /\ SameSuffixStatus(s, foldIdx)) =>
              /\ \E i \in CandIdx(s, foldIdx) : rawResources[i] = bySlug[s]
              /\ bySlug[s].version = MaxVersion(s, foldIdx)
    /\ (CandIdx(uvSlug, foldIdx) # {} /\ SameSuffixStatus(uvSlug, foldIdx)) =>
          /\ \E i \in CandIdx(uvSlug, foldIdx) : rawResources[i] = chosen
          /\ chosen.version = MaxVersion(uvSlug, foldIdx)

\* C3 witness: both folds are done over a listing that offered the slug of
\* the request the same key first at the greatest version and later at a
\* lower one, and the later entry did not replace the choice.
C3_Witness ==
    /\ FoldDone
    /\ SameSuffixStatus(uvSlug, foldIdx)
    /\ \E i, j \in CandIdx(uvSlug, foldIdx) :
          /\ i < j
          /\ rawResources[i].version > rawResources[j].version
          /\ chosen = rawResources[i]
          /\ bySlug[uvSlug] = rawResources[i]

(***************************************************************************)
(* Token claims (C8 - C10), checked under JwtSpec.                         *)
(***************************************************************************)
Verified(hd) == jwtOut[hd] # Pending

TokH == Part(Split(token), 1)
TokP == Part(Split(token), 2)
TokS == Part(Split(token), 3)

\* Correctly signed three-part tokens with an HS256 header.
WellSigned == {Sign(<<"H">>, p, ServerSecret) : p \in PayloadSegs}

\* Positions of tok inside its k-th segment.
SegmentPositions(tok, k) ==
    {i \in 1..Len(tok) :
        /\ tok[i] # "."
        /\ Cardinality({j \in 1..i : tok[j] = "."}) = k - 1}

\* Tokens obtained from tok by changing one character of its k-th segment.
SegmentChanges(tok, k) ==
    {[tok EXCEPT ![i] = c] : i \in SegmentPositions(tok, k), c \in Alphabet} \ {tok}

TamperedFrom(v) ==
    SegmentChanges(v, 1) \cup SegmentChanges(v, 2) \cup SegmentChanges(v, 3)

\* C8: a token obtained from a correctly signed token by changing one
\* character of its signature, header or payload segment is rejected by every
\* verifyJWT, and a token is accepted only if its third segment is the MAC of
\* its first two segments under the shared secret.
C8_TamperDetected ==
    \A hd \in Handlers :
        Verified(hd) =>
            /\ jwtOut[hd].kind = "payload" => TokS = Hmac(envSecret, TokH, TokP)
            /\ (\E v \in WellSigned : token \in TamperedFrom(v)) =>
                   jwtOut[hd].kind = "null"

\* C8 witness: all three handlers have rejected a token that is an unexpired
\* admin token with one character of its signature changed.
C8_Witness ==
    /\ \A hd \in Handlers : jwtOut[hd].kind = "null"
    /\ token \in SegmentChanges(Sign(<<"H">>, <<"a">>, ServerSecret), 3)
    /\ Len(Split(token)) = 3

\* C9: a correctly signed token whose payload carries exp is rejected whenever
\* now >= exp * 1000, for every value of exp; it passes the expiry condition
\* only when exp is absent or now < exp * 1000.
C9_ExpiredRejected ==
    \A hd \in Handlers :
        (Verified(hd) /\ token \in WellSigned) =>
            LET payload == decodeB64Json(TokP)
            IN  /\ (payload.hasExp /\ nowMs >= payload.exp * 1000) =>
                       jwtOut[hd].kind = "null"
                /\ jwtOut[hd].kind = "payload" =>
                       (~payload.hasExp \/ nowMs < payload.exp * 1000)

\* C10: a token is accepted only if splitting it on "." yields exactly three
\* non-empty parts, and no input makes verifyJWT throw.
C10_ExactlyThreeParts ==
    \A hd \in Handlers :
        Verified(hd) =>
            /\ jwtOut[hd].kind # "throw"
            /\ jwtOut[hd].kind = "payload" =>
                   /\ Len(Split(token)) = 3
                   /\ \A k \in 1..3 : Split(token)[k] # <<>>

(***************************************************************************)
(* Handler claims (C4 - C7), checked under Spec.                           *)
(***************************************************************************)
\* A header that carries a correctly signed, unexpired token of role admin
\* in the Bearer pattern.
ValidAdminAuth(auth) ==
    /\ auth.present
    /\ auth.scheme \in {"Bearer", "bearer"}
    /\ auth.cred \in WellSigned
    /\ LET payload == decodeB64Json(Part(Split(auth.cred), 2))
       IN  /\ payload.role = "admin"
           /\ ~payload.hasExp \/ nowMs < payload.exp * 1000

ItemSlugs(items) == {items[i].slug : i \in 1..Len(items)}

\* C4: once update-visible has completed a write-back for a slug, every later
\* resolution of that slug, by the listing of list-posts or by the listing of
\* update-visible, chooses the extensionless key.
C4_CanonicalAfterWriteBack ==
    [][ /\ (lp.pc = "list" /\ lp'.pc = "fetch") =>
              \A s \in wroteBack :
                  lp'.targets[s] # NoDesc => ~HasJson(lp'.targets[s].public_id)
        /\ \A p \in UVProcs :
              (uv[p].pc = "list" /\ uv'[p].pc = "fetch" /\ uv[p].slug \in wroteBack) =>
                  ~HasJson(uv'[p].chosen.public_id) ]_vars

\* C5: a list-posts response to a request without a valid admin token holds
\* no entry built from a stored record whose visible field is false; with the
\* show-hidden flag set the response is 401 and holds no items.
C5_HiddenNeverDisclosed ==
    (resp.handler = "list" /\ ~ValidAdminAuth(resp.auth)) =>
        /\ (resp.method = "GET" /\ resp.showHidden) =>
               (resp.status = 401 /\ resp.items = <<>>)
        /\ \A s \in ItemSlugs(resp.items) :
               /\ resp.results[s].state = "item"
               /\ resp.results[s].data.visible # "false"

\* C5 witness: a listing without a token has answered 200 after fetching a
\* hidden record of s1 and a visible record of s2, and returned s2 alone.
C5_Witness ==
    /\ resp.handler = "list"
    /\ resp.auth = AuthAbsent
    /\ resp.status = 200
    /\ resp.results["s1"].state = "item"
    /\ resp.results["s1"].data.visible = "false"
    /\ ItemSlugs(resp.items) = {"s2"}

\* C6: a list-posts request with the show-hidden flag and a valid admin
\* token is not refused, and its 200 response holds an entry for every slug
\* whose chosen record was fetched and parsed, hidden ones included, with the
\* visibility the record stores.
C6_AdminListingUnfiltered ==
    (resp.handler = "list" /\ resp.method = "GET" /\ resp.showHidden
        /\ ValidAdminAuth(resp.auth)) =>
        /\ resp.status # 401
        /\ resp.status = 200 =>
               \A s \in Slugs :
                   resp.results[s].state = "item" =>
                       \E i \in 1..Len(resp.items) :
                           /\ resp.items[i].slug = s
                           /\ resp.items[i].visible =
                                  (resp.results[s].data.visible # "false")

\* C6 witness: an admin listing with the show-hidden flag has returned the
\* hidden record of s1 next to the visible record of s2.
C6_Witness ==
    /\ resp.handler = "list"
    /\ resp.showHidden
    /\ resp.auth = AuthAdmin
    /\ resp.status = 200
    /\ resp.results["s1"].data.visible = "false"
    /\ ItemSlugs(resp.items) = {"s1", "s2"}
    /\ \E i \in 1..Len(resp.items) :
          resp.items[i].slug = "s1" /\ resp.items[i].visible = FALSE

\* The token verification each mutation handler calls.
HandlerVerify(handler, tok) ==
    IF handler = "create" THEN verifyJWT_create(tok, envSecret, nowMs)
    ELSE IF handler = "delete" THEN JwtLibVerify(tok, envSecret, nowMs)
    ELSE verifyJWT(tok, envSecret, nowMs)

\* The header is absent, does not match Bearer <token>, or its token fails
\* the handler's verification or lacks role admin.
Unauthorized(handler, auth) ==
    \/ ~auth.present
    \/ auth.scheme \notin {"Bearer", "bearer"}
    \/ auth.cred = <<>>
    \/ HandlerVerify(handler, auth.cred).kind # "payload"
    \/ HandlerVerify(handler, auth.cred).role # "admin"

\* C7: create-post, delete-post and update-visible never reach a storage call
\* for an unauthorized request: no invocation of such a request is past the
\* gate, and its response is sent before the body was parsed and with no
\* storage call made; it is 401 for a POST (a request of another method ends
\* at the method check, in 204 or 405).
C7_MutationsGated ==
    /\ \A p \in UVProcs : uv[p].pc # "idle" => ~Unauthorized("update", uv[p].auth)
    /\ cp.pc # "idle" => ~Unauthorized("create", cp.auth)
    /\ dp.pc # "idle" => ~Unauthorized("delete", dp.auth)
    /\ (resp.handler \in {"create", "delete", "update"}
          /\ Unauthorized(resp.handler, resp.auth)) =>
           /\ resp.calls = 0
           /\ ~resp.parsed
           /\ resp.method = "POST" => resp.status = 401
           /\ resp.status \in {401, 204, 405}

\* C7 witness: delete-post has answered 401 to a POST whose Bearer token is
\* correctly signed but carries another role, without parsing the body.
C7_Witness ==
    /\ resp.handler = "delete"
    /\ resp.method = "POST"
    /\ resp.auth.scheme = "bearer"
    /\ resp.auth.cred = UserToken
    /\ resp.status = 401
    /\ resp.calls = 0
    /\ ~resp.parsed

(***************************************************************************)
(* Login claim (C11), checked under LoginSpec.                             *)
(***************************************************************************)
\* C11: login answers a POST with a token only when the supplied password is
\* non-empty and equals the configured one, and with 401 otherwise; the
\* token it issued at time t is accepted as role admin by the requireAdmin of
\* create, delete, update-visible and list whenever it is presented before
\* (floor(t / 1000) + ttl) * 1000.
C11_TokenRoundTrip ==
    /\ lg.pc = "done" =>
          /\ lg.status = 200 =>
                (lg.method = "POST" /\ lg.supplied # "" /\ lg.supplied = envPassword)
          /\ (lg.method = "POST" /\ (lg.supplied = "" \/ lg.supplied # envPassword)) =>
                lg.status = 401
    /\ \A hd \in Protected :
          (authOut[hd].kind # "none"
              /\ authOut[hd].at < ((lg.issuedAt \div 1000) + LoginTtl) * 1000) =>
              (authOut[hd].kind = "payload" /\ authOut[hd].role = "admin")

\* C11 witness: a login with the configured password has issued a token and
\* all four protected handlers have accepted it, one of them at a later time
\* than the issuance.
C11_Witness ==
    /\ lg.status = 200
    /\ \A hd \in Protected : authOut[hd].kind = "payload"
    /\ \E hd \in Protected : authOut[hd].at > lg.issuedAt

(***************************************************************************)
(* Flow claims (C12..), checked under FlowSpec.                            *)
(***************************************************************************)
\* The URLs of the record fetches that are in flight.
FetchUrls ==
    {VersionedUrl(uv[p].chosen) : p \in {q \in UVProcs : uv[q].pc = "fetch"}}
    \cup {VersionedUrl(lp.targets[s]) :
            s \in {x \in Slugs : lp.pc = "fetch" /\ lp.results[x].state = "pending"}}
    \cup (IF gp.pc = "fetch" THEN {gp.url} ELSE {})
    \cup (IF ex.pc = "fetch" THEN {ex.url} ELSE {})

\* C12: every record fetch of list-posts, update-visible, get-post and
\* export-archive uses a URL that embeds a version, never an unversioned one.
C12_EveryFetchVersioned ==
    \A u \in FetchUrls : u.version # Unversioned

\* The record stored at the canonical key of a slug.
Canonical(s) == storage[[slug |-> s, name |-> "data"]]

\* A get-post invocation that began after the latest completed mutation
\* answers in this step.
GPAnswers == gp.pc = "fetch" /\ gp'.pc = "idle" /\ "gp" \in clean

\* C13: create-post stores visible true for a body without a visible field
\* and the body's boolean otherwise, and a get-post of the slug that starts
\* after the create succeeded and answers 200 returns the record the create
\* stored, with preview the URL of the first item.
C13_CreateThenGet ==
    [][ /\ \A req \in FlowCPRequests :
              CPGate(req, envSecret, nowMs).visible =
                  (IF req.body.visible = "unset" THEN "true" ELSE req.body.visible)
        /\ (GPAnswers /\ lastOp[gp.slug] = "create" /\ resp'.status = 200) =>
              /\ resp'.data = Canonical(gp.slug).content
              /\ resp'.data.preview = FirstUrl("one") ]_vars

\* A list-posts invocation that began after the latest completed mutation
\* answers 200 in this step.
LPAnswers ==
    lp.pc = "fetch" /\ lp'.pc = "idle" /\ "lp" \in clean /\ resp'.status = 200

\* C14: once update-visible has hidden a slug and answered ok, a non-admin
\* list-posts that starts afterwards has no entry of the slug, and a get-post
\* of the slug that starts afterwards returns the record with visible false.
C14_ToggleThenRead ==
    [][ /\ LPAnswers =>
              \A s \in Slugs : lastOp[s] = "hide" => s \notin ItemSlugs(resp'.items)
        /\ (GPAnswers /\ lastOp[gp.slug] = "hide" /\ resp'.status = 200) =>
              resp'.data.visible = "false" ]_vars

\* The visible value a completed toggle of kind op has requested.
Requested(op) == IF op = "show" THEN "true" ELSE "false"

C16_OnlyVisibleMutable ==
    [][ \A p \in UVProcs :
            (/\ uv[p].pc = "upload" /\ uv'[p].pc = "idle" /\ resp'.status = 200
             /\ Canonical(uv[p].slug).present
             /\ Canonical(uv[p].slug).content.kind = "record") =>
                storage'[[slug |-> uv[p].slug, name |-> "data"]].content =
                    [Canonical(uv[p].slug).content EXCEPT
                        !.visible = IF uv[p].newVisible THEN "true" ELSE "false"] ]_vars

\* C17: when delete-post answers ok and its deletion is the latest mutation
\* of the slug, no object is stored under the slug; an update-visible of the
\* slug that starts after the deletion ends at its listing, with 404 unless
\* the listing call fails; a list-posts that starts after it has no entry of
\* the slug; and a delete-post past its checks answers ok only after its
\* three storage calls, and 500 when one of them fails.
C17_DeleteRemovesEveryCopy ==
    [][ /\ (dp.pc # "idle" /\ dp'.pc = "idle") =>
              \/ resp'.status = 500
              \/ /\ resp'.status = 200 /\ dp.pc = "folder" /\ resp'.calls = 3
                 /\ lastOp[dp.slug] = "delete" =>
                        \A k \in StoreKeys : k.slug = dp.slug => ~storage'[k].present
        /\ \A p \in UVProcs :
              (uv[p].pc = "list" /\ p \in clean /\ lastOp[uv[p].slug] = "delete"
               /\ uv'[p] # uv[p]) =>
                  /\ uv'[p].pc = "idle"
                  /\ resp'.handler = "update" /\ resp'.status \in {404, 500}
                  /\ Listed(storage, {uv[p].slug}) = {}
        /\ LPAnswers =>
              \A s \in Slugs : lastOp[s] = "delete" => s \notin ItemSlugs(resp'.items) ]_vars

\* C17 witness: a delete-post of s1, which had both keys stored, has answered
\* ok, and an update-visible of s1 that started afterwards is at its listing.
C17_Witness ==
    /\ lastOp["s1"] = "delete"
    /\ resp.handler = "delete" /\ resp.status = 200 /\ resp.slug = "s1"
    /\ \A k \in StoreKeys : k.slug = "s1" => (~storage[k].present /\ storage[k].version > 0)
    /\ \E p \in UVProcs : p \in clean /\ uv[p].pc = "list" /\ uv[p].slug = "s1"

\* C20: an update-visible that ends at its listing answers 404 (500 when
\* the listing call fails) and one that ends at its fetch answers 500, both
\* without changing storage; it goes on to the upload, and answers ok, only
\* with a fetched body that is a JSON record.
C20_FailedToggleLeavesStorage ==
    [][ \A p \in UVProcs :
            /\ (uv[p].pc = "list" /\ uv'[p].pc = "idle") =>
                  (resp'.status \in {404, 500} /\ storage' = storage)
            /\ (uv[p].pc = "fetch" /\ uv'[p].pc = "idle") =>
                  (resp'.status = 500 /\ storage' = storage)
            /\ (uv[p].pc = "fetch" /\ uv'[p].pc = "upload") =>
                  uv'[p].data.kind = "record"
            /\ (uv[p].pc = "upload" /\ uv'[p].pc = "idle" /\ resp'.status = 200) =>
                  uv[p].data.kind = "record" ]_vars

(***************************************************************************)
(* Handler claims (C18..), checked under Spec.                             *)
(***************************************************************************)
\* The create-post bodies with a missing or blank slug, or with items that
\* are no array or an empty one.
RejectedBodies ==
    {b \in CPBodies : b.json /\ (Trim(b.slug) = "" \/ b.items \in {"missing", "empty"})}

\* C18: create-post answers 400 to an authorized POST whose slug is missing
\* or blank or whose items are no non-empty array, a create-post that answers
\* 400 has made no storage call and changed nothing, and the record a
\* create-post uploads has a non-empty items list and a non-blank slug.
C18_ItemsNonEmptyAtCreation ==
    [][ /\ (cp.pc = "idle" /\ resp' # resp /\ resp'.handler = "create") =>
              \A b \in RejectedBodies :
                  CPGate([method |-> "POST", auth |-> AuthAdmin, body |-> b],
                         envSecret, nowMs).status = 400
        /\ (nreq' # nreq /\ resp'.handler = "create" /\ resp'.status = 400) =>
              (storage' = storage /\ resp'.calls = 0)
        /\ (cp.pc = "upload" /\ cp'.pc = "idle" /\ resp'.status = 200) =>
              /\ Trim(cp.slug) # ""
              /\ storage'[[slug |-> cp.slug, name |-> "data"]].content.items = "one"
        /\ cp'.pc = "upload" => (cp'.items = "one" /\ Trim(cp'.slug) # "") ]_vars

\* C18 witness: a create-post has uploaded a record and answered ok.
C18_Witness ==
    /\ resp.handler = "create" /\ resp.status = 200 /\ resp.calls = 1
    /\ lastOp[resp.slug] = "create"
    /\ Canonical(resp.slug).content.items = "one"
    /\ Canonical(resp.slug).content.preview = FirstUrl("one")

\* C19: in list-posts a fetch that settles leaves the results of the other
\* slugs as they are; once the listing has succeeded the response is 200 and
\* is built when every fetch has settled; a slug whose fetch or parse failed
\* has no entry, and every slug whose record was fetched has its entry
\* unless the visibility filter removes it.
C19_ListingIsolatesFailures ==
    [][ /\ (lp.pc = "fetch" /\ lp'.pc = "fetch") =>
              \A s \in Slugs : lp.results[s].state # "pending" => lp'.results[s] = lp.results[s]
        /\ (lp.pc = "fetch" /\ lp'.pc = "idle") =>
              /\ resp'.handler = "list" /\ resp'.status = 200
              /\ \A s \in Slugs :
                    /\ lp.results[s].state # "pending"
                    /\ lp.results[s].state = "null" => s \notin ItemSlugs(resp'.items)
                    /\ (/\ lp.results[s].state = "item"
                        /\ (lp.allowShowHidden \/ lp.results[s].data.visible # "false")) =>
                           s \in ItemSlugs(resp'.items) ]_vars

\* C19 witness: a listing resolved both slugs, the fetch of s1 failed and the
\* response is 200 with the entry of s2 alone.
C19_Witness ==
    /\ resp.handler = "list" /\ resp.status = 200
    /\ resp.results["s1"].state = "null"
    /\ resp.results["s2"].state = "item"
    /\ ItemSlugs(resp.items) = {"s2"}

(***************************************************************************)
(* Pagination claim (C21), checked under PageLive.                         *)
(***************************************************************************)
\* The resources of all pages of a listing, in page order.
RECURSIVE AllResources(_)
AllResources(pages) ==
    IF pages = <<>> THEN <<>> ELSE Head(pages).resources \o AllResources(Tail(pages))

\* The loop's calls so far were made in page order, the first without a
\* cursor and each later one with the cursor of the page before; the loop
\* goes on while the last page carried a cursor and has left exactly when a
\* page carried none, with the resources of every page collected; and the
\* fetches start only when all of them went through the per-slug fold.
PagesInOrder ==
    /\ Len(pg.requested) <= Len(pg.pages)
    /\ \A k \in 1..Len(pg.requested) :
          pg.requested[k] = IF k = 1 THEN NoCursor ELSE pg.pages[k - 1].next_cursor
    /\ pg.pc = "list" =>
          (pg.requested = <<>> \/ pg.pages[Len(pg.requested)].next_cursor # NoCursor)
    /\ pg.pc \in {"fold", "fetch"} =>
          /\ pg.requested # <<>>
          /\ pg.pages[Len(pg.requested)].next_cursor = NoCursor
          /\ Len(pg.requested) = Len(pg.pages)
          /\ rawResources = AllResources(pg.pages)
    /\ pg.pc # "fetch" => (foldIdx = 0 \/ pg.pc = "fold")
    /\ pg.pc = "fetch" =>
          /\ foldIdx = Len(rawResources)
          /\ bySlug = LPFoldAll([s \in Slugs |-> NoDesc], AllResources(pg.pages))
          /\ \A k \in 1..Len(pg.pages) : \A i \in 1..Len(pg.pages[k].resources) :
                bySlug[pg.pages[k].resources[i].public_id.slug] # NoDesc

\* C21: list-posts requests the pages one at a time, each with the cursor of
\* the page before, and stops exactly at the page without cursor; on a
\* finite listing the loop ends, and every object of every page has gone
\* through the per-slug selection before the record fetches start.
C21_EveryPageEnumerated ==
    /\ []PagesInOrder
    /\ <>(pg.pc \in {"fetch", "failed"})

\* C21 witness: a listing of more than one page has been read to its end and
\* folded, and a slug that only the last page names has its target.
C21_Witness ==
    /\ pg.pc = "fetch"
    /\ Len(pg.pages) > 1
    /\ \E s \in Slugs :
          /\ bySlug[s] # NoDesc
          /\ \A k \in 1..(Len(pg.pages) - 1) : \A i \in 1..Len(pg.pages[k].resources) :
                pg.pages[k].resources[i].public_id.slug # s

(***************************************************************************)
(* Archive claim (C22), checked under ArchiveSpec.                         *)
(***************************************************************************)
\* C22: in export-archive a skipped item (no url, or a fetch that is not ok)
\* has no archive entry, the index of its position is given to no later
\* item, and the entries are in the order of their items.
C22_SkippedIndexNotReused ==
    /\ \A p \in zip.skipped : \A i \in 1..Len(zip.files) :
          /\ zip.files[i].item # p
          /\ zip.files[i].item > p => zip.files[i].index # p
    /\ \A i, j \in 1..Len(zip.files) :
          i < j => (zip.files[i].item < zip.files[j].item /\ zip.files[i].index < zip.files[j].index)

(***************************************************************************)
(* Storage key claims (C23, C24), checked under KeySpec.                   *)
(***************************************************************************)
\* A delete-post or update-visible call has just been answered.
KeyWriteStep == ks'.nops # ks.nops /\ ks'.last.op \in {"delete", "update"}

\* C23: delete-post and update-visible called for slug s leave the stored
\* object of every other created slug t unchanged (t is neither the slug
\* string of the request nor its trimmed form), also when s is a proper
\* string prefix of t.
C23_OtherSlugsUntouched ==
    [][KeyWriteStep =>
         \A t \in ks.created \ {ks'.last.slug, TrimStr(ks'.last.slug)} :
            \A o \in ks.stored : o.pid = DataPid(t) => o \in ks'.stored]_vars

\* C24: for every slug string that create-post accepted and whose object is
\* stored, update-visible and delete-post called with the same string
\* resolve exactly the object create-post wrote, and list-posts resolves the
\* object of every such slug.
C24_CreatedSlugAddressable ==
    [][/\ KeyWriteStep /\ DataPid(ks'.last.slug) \in PidsOf(ks.stored)
          => /\ ks'.last.status = 200
             /\ ks'.last.resolved = {DataPid(ks'.last.slug)}
       /\ (ks'.nops # ks.nops /\ ks'.last.op = "list")
          => \A s \in ks.created :
                DataPid(s) \in PidsOf(ks.stored) => DataPid(s) \in ks'.last.resolved]_vars

====
